---- MODULE Spec2Model ----
(***************************************************************************)
(* Task queue, worker loop, pipeline orchestrator and pipeline steps of    *)
(* the sentiment-reality repository (jobs/worker.py, jobs/pipeline.py,     *)
(* jobs/run_local.py, api/routers/stocks.py).                              *)
(*                                                                         *)
(* The tasks table is a sequence of rows (the id of a row is its index).   *)
(* Every worker process runs run_once: the claim statement of              *)
(* claim_next_task is split into the three points at which a concurrent    *)
(* transaction can observe it (statement snapshot, row lock taken with     *)
(* SKIP LOCKED, UPDATE + commit), then the handler and complete_task.      *)
(***************************************************************************)
EXTENDS Integers, Sequences, FiniteSets, TLC

VARIABLES tasks, clock, tracked, store, pc, snap, locked, cur, prun, call, db

vars == <<tasks, clock, tracked, store, pc, snap, locked, cur, prun, call, db>>

\* The state of the workers.
workerVars == <<pc, snap, locked, cur>>

\* The last request or program run with its outcome, and the data tables.
dataVars == <<call, db>>

\* The state a queue or worker operation never touches.
pipeVars == <<prun, dataVars>>

(***************************************************************************)
(* Bounds of the model.                                                    *)
(***************************************************************************)
MaxTasks == 3

Workers == {"w1", "w2"}

QueueTickers == {"ZZZ"}

\* The ticker symbols of the model, in ascending order.
TickerOrder == <<"AAA", "ZZZ">>

None == "None"

NoTask == [id |-> 0]

NoRow == 0

(***************************************************************************)
(* Program constants.                                                      *)
(***************************************************************************)
MAX_ATTEMPTS == 3

BackfillPriority == 10

RefreshPriority == 50

ErrorLimit == 1000

DEFAULT_TICKERS == <<"TSLA", "NVDA", "JPM", "PFE", "GME">>

DAILY_PARAMS ==
    [news_hours |-> 48, score_limit |-> 200, prices_days |-> 180,
     agg_days |-> 90, metrics_days |-> 90, window_days |-> 7]

REFRESH_PARAMS ==
    [news_hours |-> 48, score_limit |-> 50, prices_days |-> 180,
     agg_days |-> 30, metrics_days |-> 30, window_days |-> 7]

BACKFILL_PARAMS ==
    [news_hours |-> 720, score_limit |-> 500, prices_days |-> 180,
     agg_days |-> 30, metrics_days |-> 30, window_days_list |-> <<7, 14, 30>>]

REFRESH_PAYLOAD ==
    [news_hours |-> 48, score_limit |-> 50, prices_days |-> 180,
     agg_days |-> 30, metrics_days |-> 30, window_days |-> 7]

(***************************************************************************)
(* Dictionaries: Python dicts and jsonb objects are functions from keys.   *)
(***************************************************************************)
EmptyDict == [k \in {} |-> None]

\* {**d, **p} in Python and d || p in jsonb: the right operand wins.
Merge(d, p) ==
    [k \in (DOMAIN d) \cup (DOMAIN p) |-> IF k \in DOMAIN p THEN p[k] ELSE d[k]]

\* d.get(k, default)
Get(d, k, default) == IF k \in DOMAIN d THEN d[k] ELSE default

(***************************************************************************)
(* Truth value of a Python object in `if x` / `if not x`.                  *)
(***************************************************************************)
TruthyStr(x) == x # None /\ x # ""

\* An exception or an error string: the text it stands for and its length.
Exc(msg, len) == [msg |-> msg, attempt |-> 0, step |-> 0, len |-> len]

NoError == Exc(None, 0)

NoTickerError == Exc("No ticker specified in task", 27)

UnknownTypeError == Exc("Unknown task type", 24)

UnexpectedKeywordError ==
    Exc("run_pipeline_for_ticker() got an unexpected keyword argument", 79)

StepError(k) == [Exc("step raised", 20) EXCEPT !.step = k]

\* f"Attempt {attempts}: {error_msg}"
AttemptPrefix(attempts, e) ==
    [e EXCEPT !.attempt = attempts, !.len = e.len + 11]

\* error[:1000]
Truncate(e) == [e EXCEPT !.len = IF e.len > ErrorLimit THEN ErrorLimit ELSE e.len]

\* `if error:` is false for None and for the empty string.
TruthyError(e) == e.len > 0

(***************************************************************************)
(* The tasks table.                                                        *)
(***************************************************************************)
Ids == 1..Len(tasks)

\* A row as INSERT INTO tasks (task_type, ticker, priority, status, payload)
\* creates it: attempts and error take the column defaults.
Row(task_type, ticker, priority, payload, created_at) ==
    [task_type |-> task_type, ticker |-> ticker, priority |-> priority,
     status |-> "PENDING", payload |-> payload, attempts |-> 0,
     error |-> NoError, created_at |-> created_at]

NewTask(task_type, ticker, priority, payload) ==
    Row(task_type, ticker, priority, payload, clock')

\* INSERT INTO tasks: created_at is the insertion time (clock is the time of the
\* latest insert); two inserts may carry the same timestamp, a later insert never
\* carries an earlier one.
Insert(row) ==
    /\ Len(tasks) < MaxTasks
    /\ clock' \in {clock, clock + 1}
    /\ tasks' = Append(tasks, row)

(***************************************************************************)
(* Pipeline orchestrator (jobs/pipeline.py).                               *)
(* The store holds, per table and ticker, whether the step's upserts have  *)
(* been applied.  A fault names the step whose collaborator raises (0: no  *)
(* step raises) and whether that step wrote part of its rows first.        *)
(***************************************************************************)
StepNames == <<"ingest_news", "score_items", "ingest_prices", "daily_agg", "metrics">>

StepTables == <<"items", "item_scores", "prices_daily", "daily_agg", "metrics_windowed">>

NumSteps == Len(StepNames)

\* ticker.upper() on the symbols of the model
Upper(t) == IF t = "zzz" THEN "ZZZ" ELSE t

Faults == [step : 0..NumSteps, partial : BOOLEAN]

NoFault == [step |-> 0, partial |-> FALSE]

\* What the collaborators do during the pipeline run of one ticker.
FaultFor(faults, ticker) ==
    IF Upper(ticker) \in DOMAIN faults THEN faults[Upper(ticker)] ELSE NoFault

PipelineParams ==
    {"ticker", "news_hours", "score_limit", "prices_days", "agg_days",
     "metrics_days", "window_days"}

\* The rows step k upserts for the ticker (execute commits each statement).
StepWrites(ticker, k) == {<<StepTables[k], ticker>>}

\* A step whose failure undoes what the run wrote for the ticker so far.
RunStepRollback(st, ticker, k, fault) ==
    IF fault.step = k
    THEN [raised |-> TRUE,
          store |-> st \ UNION {StepWrites(ticker, j) : j \in 1..k}]
    ELSE [raised |-> FALSE, store |-> st \cup StepWrites(ticker, k)]

\* One step of the try block: it returns its result record, or raises (after
\* writing part of its rows or none).
RunStep(st, ticker, k, fault) ==
    IF fault.step = k
    THEN [raised |-> TRUE,
          store |-> IF fault.partial THEN st \cup StepWrites(ticker, k) ELSE st]
    ELSE [raised |-> FALSE, store |-> st \cup StepWrites(ticker, k)]

\* summary as built at lines 49-54
NewSummary(ticker) ==
    [ticker |-> ticker, started_at |-> "t", steps |-> {}, success |-> FALSE]

\* lines 90-97: the except clause and the common tail
FailSummary(summary, k) ==
    Merge(summary, [error |-> StepError(k), elapsed_seconds |-> "dt"])

\* lines 88 and 96-97
OkSummary(summary) ==
    Merge([summary EXCEPT !.success = TRUE], [elapsed_seconds |-> "dt"])

RECURSIVE RunSteps(_, _, _, _)
RunSteps(st, summary, k, fault) ==
    IF k > NumSteps
    THEN [summary |-> OkSummary(summary), store |-> st]
    ELSE LET r == RunStep(st, summary.ticker, k, fault) IN
         IF r.raised
         THEN [summary |-> FailSummary(summary, k), store |-> r.store]
         ELSE RunSteps(r.store,
                       [summary EXCEPT !.steps = @ \cup {StepNames[k]}],
                       k + 1, fault)

\* Binding the call's keyword arguments to the signature of lines 15-23.
BindRaises(kwargs) ==
    \/ ~((DOMAIN kwargs) \subseteq PipelineParams)
    \/ "ticker" \notin DOMAIN kwargs

\* A call run_pipeline_for_ticker(**kwargs): [raised, exc, summary, store].
run_pipeline_for_ticker(st, kwargs, fault) ==
    IF BindRaises(kwargs)
    THEN [raised |-> TRUE, exc |-> UnexpectedKeywordError,
          summary |-> EmptyDict, store |-> st]
    ELSE LET r == RunSteps(st, NewSummary(Upper(kwargs.ticker)), 1, fault) IN
         [raised |-> FALSE, exc |-> NoError,
          summary |-> r.summary, store |-> r.store]

(***************************************************************************)
(* Task handlers (jobs/worker.py).  A handler returns                     *)
(* [raised, exc, result, store]: the dict it returns or the exception it   *)
(* lets escape, and the store it leaves.                                   *)
(***************************************************************************)
Returns(result, st) == [raised |-> FALSE, exc |-> NoError, result |-> result, store |-> st]

Raises(exc, st) == [raised |-> TRUE, exc |-> exc, result |-> EmptyDict, store |-> st]

\* ticker = task.get("ticker") or task.get("payload", {}).get("ticker")
TaskTicker(task) ==
    IF TruthyStr(task.ticker) THEN task.ticker ELSE Get(task.payload, "ticker", None)

\* The call with the defaults, whatever the payload holds.
RefreshKwargsDefault(ticker, params) ==
    [k \in {"ticker"} \cup DOMAIN REFRESH_PARAMS |->
        IF k = "ticker" THEN ticker ELSE REFRESH_PARAMS[k]]

\* The keyword arguments of the call at lines 193-201.
RefreshKwargs(ticker, params) ==
    [ticker |-> ticker,
     news_hours |-> Get(params, "news_hours", REFRESH_PARAMS.news_hours),
     score_limit |-> Get(params, "score_limit", REFRESH_PARAMS.score_limit),
     prices_days |-> Get(params, "prices_days", REFRESH_PARAMS.prices_days),
     agg_days |-> Get(params, "agg_days", REFRESH_PARAMS.agg_days),
     metrics_days |-> Get(params, "metrics_days", REFRESH_PARAMS.metrics_days),
     window_days |-> Get(params, "window_days", REFRESH_PARAMS.window_days)]

\* The keyword arguments of the call at lines 232-240.
BackfillKwargs(ticker, params) ==
    [ticker |-> ticker,
     news_hours |-> Get(params, "news_hours", BACKFILL_PARAMS.news_hours),
     score_limit |-> Get(params, "score_limit", BACKFILL_PARAMS.score_limit),
     prices_days |-> Get(params, "prices_days", BACKFILL_PARAMS.prices_days),
     agg_days |-> Get(params, "agg_days", BACKFILL_PARAMS.agg_days),
     metrics_days |-> Get(params, "metrics_days", BACKFILL_PARAMS.metrics_days),
     window_days_list |-> Get(params, "window_days_list", BACKFILL_PARAMS.window_days_list)]

\* The keyword arguments of the call at lines 148-156.
DailyKwargs(ticker, params) ==
    [ticker |-> ticker,
     news_hours |-> params["news_hours"],
     score_limit |-> params["score_limit"],
     prices_days |-> params["prices_days"],
     agg_days |-> params["agg_days"],
     metrics_days |-> params["metrics_days"],
     window_days |-> params["window_days"]]

handle_refresh_stock(task, st, faults) ==
    LET ticker == TaskTicker(task) IN
    IF ~TruthyStr(ticker)
    THEN Raises(NoTickerError, st)
    ELSE LET params == Merge(REFRESH_PARAMS, task.payload)
             r == run_pipeline_for_ticker(st, RefreshKwargs(ticker, params),
                                          FaultFor(faults, ticker))
         IN IF r.raised THEN Raises(r.exc, r.store) ELSE Returns(r.summary, r.store)

handle_backfill_stock(task, st, faults) ==
    LET ticker == TaskTicker(task) IN
    IF ~TruthyStr(ticker)
    THEN Raises(NoTickerError, st)
    ELSE LET params == Merge(BACKFILL_PARAMS, task.payload)
             r == run_pipeline_for_ticker(st, BackfillKwargs(ticker, params),
                                          FaultFor(faults, ticker))
         IN IF r.raised THEN Raises(r.exc, r.store) ELSE Returns(r.summary, r.store)

\* One iteration of a per-ticker loop: the call inside try/except, and the entry
\* it leaves in results.
LoopEntry(r) ==
    IF r.raised
    THEN [success |-> FALSE, error |-> r.exc]
    ELSE [success |-> r.summary.success, elapsed |-> r.summary.elapsed_seconds]

RECURSIVE DailyLoop(_, _, _, _, _, _)
DailyLoop(tickers, i, params, st, results, faults) ==
    IF i > Len(tickers)
    THEN [results |-> results, store |-> st]
    ELSE LET t == tickers[i]
             r == run_pipeline_for_ticker(st, DailyKwargs(t, params), FaultFor(faults, t))
         IN DailyLoop(tickers, i + 1, params, r.store,
                      Merge(results, [k \in {t} |-> LoopEntry(r)]), faults)

\* SELECT ticker FROM tracked_stocks WHERE is_active = true ORDER BY ticker
ActiveTickers(trk) == SelectSeq(TickerOrder, LAMBDA t : t \in trk)

handle_daily_update_all(task, st, trk, faults) ==
    LET tickers == ActiveTickers(trk) IN
    IF Len(tickers) = 0
    THEN Returns([tickers_processed |-> 0, results |-> EmptyDict], st)
    ELSE LET params == Merge(DAILY_PARAMS, task.payload)
             l == DailyLoop(tickers, 1, params, st, EmptyDict, faults)
         IN Returns([tickers_processed |-> Cardinality(DOMAIN l.results),
                     results |-> l.results], l.store)

RECURSIVE DefaultsLoop(_, _, _)
DefaultsLoop(i, st, results) ==
    IF i > Len(DEFAULT_TICKERS)
    THEN [results |-> results, store |-> st]
    ELSE LET t == DEFAULT_TICKERS[i]
             r == run_pipeline_for_ticker(st, BackfillKwargs(t, BACKFILL_PARAMS), NoFault)
         IN DefaultsLoop(i + 1, r.store, Merge(results, [k \in {t} |-> LoopEntry(r)]))

handle_backfill_defaults(task, st) ==
    LET l == DefaultsLoop(1, st, EmptyDict) IN
    Returns([tickers |-> DEFAULT_TICKERS, results |-> l.results], l.store)

\* The dispatch of run_once, lines 306-316.
Dispatch(task, st, trk, faults) ==
    CASE task.task_type = "DAILY_UPDATE_ALL" -> handle_daily_update_all(task, st, trk, faults)
      [] task.task_type = "REFRESH_STOCK" -> handle_refresh_stock(task, st, faults)
      [] task.task_type = "BACKFILL_STOCK" -> handle_backfill_stock(task, st, faults)
      [] task.task_type = "BACKFILL_DEFAULTS" -> handle_backfill_defaults(task, st)
      [] OTHER -> Raises(UnknownTypeError, st)

(***************************************************************************)
(* complete_task and the tail of run_once.                                 *)
(***************************************************************************)
\* An UPDATE whose WHERE id = %s matches no row.
complete_task_no_row(T, task_id, result, error) == T

complete_task(T, task_id, result, error) ==
    IF task_id \notin 1..Len(T)
    THEN T
    ELSE IF TruthyError(error)
    THEN [T EXCEPT ![task_id].status = "ERROR", ![task_id].error = Truncate(error)]
    ELSE IF DOMAIN result # {}
    THEN [T EXCEPT ![task_id].status = "DONE",
                   ![task_id].payload = Merge(@, [result |-> result])]
    ELSE [T EXCEPT ![task_id].status = "DONE"]

\* A worker that puts a failed task back while attempts remain.
RecordOutcomeRequeue(T, task, out) ==
    IF ~out.raised
    THEN complete_task(T, task.id, out.result, NoError)
    ELSE IF task.attempts >= MAX_ATTEMPTS
    THEN complete_task(T, task.id, EmptyDict, out.exc)
    ELSE [T EXCEPT ![task.id].status = "PENDING",
                   ![task.id].error = AttemptPrefix(task.attempts, out.exc)]

\* run_once, lines 318-333: what the worker records for the handler's outcome.
RecordOutcome(T, task, out) ==
    IF ~out.raised
    THEN complete_task(T, task.id, out.result, NoError)
    ELSE IF task.attempts >= MAX_ATTEMPTS
    THEN complete_task(T, task.id, EmptyDict, out.exc)
    ELSE complete_task(T, task.id, EmptyDict, AttemptPrefix(task.attempts, out.exc))

(***************************************************************************)
(* claim_next_task: ORDER BY priority DESC, created_at ASC ... LIMIT 1      *)
(* FOR UPDATE SKIP LOCKED.                                                 *)
(***************************************************************************)
\* ORDER BY priority ASC, created_at ASC
BeforeAscending(a, b) ==
    \/ a.priority < b.priority
    \/ a.priority = b.priority /\ a.created_at < b.created_at

\* Row a sorts strictly before row b.
Before(a, b) ==
    \/ a.priority > b.priority
    \/ a.priority = b.priority /\ a.created_at < b.created_at

\* The rows of C that sort first (rows equal in both keys come in any order).
FirstRows(T, C) == {i \in C : \A j \in C : ~Before(T[j], T[i])}

\* The row is locked by the open claim of another worker.
LockedByOther(w, i) == \E v \in (DOMAIN locked) \ {w} : locked[v] = i

\* WHERE status = 'PENDING' OR (status = 'ERROR' AND attempts < MAX_ATTEMPTS)
PendingOrRetry(T) ==
    {i \in 1..Len(T) :
        \/ T[i].status = "PENDING"
        \/ T[i].status = "ERROR" /\ T[i].attempts < MAX_ATTEMPTS}

\* WHERE status IN ('PENDING', 'RUNNING')
PendingOrRunning(T) == {i \in 1..Len(T) : T[i].status \in {"PENDING", "RUNNING"}}

\* What the statement's snapshot sees: the committed PENDING rows.
Pending(T) == {i \in 1..Len(T) : T[i].status = "PENDING"}

\* The same SELECT without FOR UPDATE: no row lock, no re-check.
LockableUnlocked(w) == snap[w]

\* LIMIT 1 taken before the locked rows are skipped.
LockableFirstOnly(w) ==
    {i \in FirstRows(tasks, snap[w]) : ~LockedByOther(w, i) /\ i \in Pending(tasks)}

\* The rows the scan can lock: unlocked rows of the snapshot that still are
\* PENDING when the lock is taken (the row is re-checked under the lock).
Lockable(w) ==
    {i \in snap[w] : ~LockedByOther(w, i) /\ i \in Pending(tasks)}

\* SET status = 'RUNNING' alone
ClaimRowUncounted(T, i) == [T EXCEPT ![i].status = "RUNNING"]

\* SET status = 'RUNNING', attempts = attempts + 1
ClaimRow(T, i) == [T EXCEPT ![i].status = "RUNNING", ![i].attempts = @ + 1]

\* The dict claim_next_task returns (payload or {} : a NULL payload reads as {}).
TaskDict(T, i) ==
    [id |-> i, task_type |-> T[i].task_type, ticker |-> T[i].ticker,
     payload |-> T[i].payload, attempts |-> T[i].attempts]

(***************************************************************************)
(* Actions.                                                                *)
(***************************************************************************)
\* POST /api/stocks with a valid ticker and a configured store.
AddStock(t) ==
    /\ Insert(NewTask("BACKFILL_STOCK", t, BackfillPriority, REFRESH_PAYLOAD))
    /\ tracked' = tracked \cup {t}
    /\ UNCHANGED <<store, workerVars, pipeVars>>

\* POST /api/stocks/refresh with a valid ticker and a configured store.
RefreshStock(t) ==
    /\ Insert(NewTask("REFRESH_STOCK", t, RefreshPriority, REFRESH_PAYLOAD))
    /\ UNCHANGED <<tracked, store, workerVars, pipeVars>>

\* enqueue(task_type, ticker, priority, payload) by the scheduled trigger.
Enqueue(task_type, ticker, priority, payload) ==
    /\ Insert(NewTask(task_type, ticker, priority, payload))
    /\ UNCHANGED <<tracked, store, workerVars, pipeVars>>

\* The claim statement starts: it takes its snapshot.
ClaimSnapshot(w) ==
    /\ pc[w] = "idle"
    /\ pc' = [pc EXCEPT ![w] = "snap"]
    /\ snap' = [snap EXCEPT ![w] = Pending(tasks)]
    /\ UNCHANGED <<tasks, clock, tracked, store, locked, cur, pipeVars>>

\* The scan locks the first lockable row; with none, the statement returns no
\* row, claim_next_task returns None and run_once returns False.
ClaimLock(w) ==
    /\ pc[w] = "snap"
    /\ snap' = [snap EXCEPT ![w] = {}]
    /\ IF Lockable(w) = {}
       THEN /\ pc' = [pc EXCEPT ![w] = "sleeping"]
            /\ UNCHANGED locked
       ELSE /\ \E i \in FirstRows(tasks, Lockable(w)) :
                 locked' = [locked EXCEPT ![w] = i]
            /\ pc' = [pc EXCEPT ![w] = "locked"]
    /\ UNCHANGED <<tasks, clock, tracked, store, cur, pipeVars>>

\* UPDATE ... RETURNING and conn.commit(): the row is RUNNING, the lock is gone.
ClaimUpdate(w) ==
    /\ pc[w] = "locked"
    /\ tasks' = ClaimRow(tasks, locked[w])
    /\ cur' = [cur EXCEPT ![w] = TaskDict(tasks', locked[w])]
    /\ locked' = [locked EXCEPT ![w] = NoRow]
    /\ pc' = [pc EXCEPT ![w] = "running"]
    /\ UNCHANGED <<clock, tracked, store, snap, pipeVars>>

\* The handler runs and run_once records its outcome with complete_task.
RunTask(w, faults) ==
    /\ pc[w] = "running"
    /\ LET out == Dispatch(cur[w], store, tracked, faults) IN
       /\ tasks' = RecordOutcome(tasks, cur[w], out)
       /\ store' = out.store
    /\ cur' = [cur EXCEPT ![w] = NoTask]
    /\ pc' = [pc EXCEPT ![w] = "idle"]
    /\ UNCHANGED <<clock, tracked, snap, locked, pipeVars>>

\* time.sleep(poll_interval) ends.
Wake(w) ==
    /\ pc[w] = "sleeping"
    /\ pc' = [pc EXCEPT ![w] = "idle"]
    /\ UNCHANGED <<tasks, clock, tracked, store, snap, locked, cur, pipeVars>>

\* No pipeline run is being followed step by step.
NoRun == [at |-> "none"]

\* No request has been served and no program has been started.
NoCall == [op |-> "none"]

\* The data tables are not part of the run.
NoData == [table |-> "none"]

Init ==
    /\ tasks = <<>>
    /\ clock = 0
    /\ tracked = {}
    /\ store = {}
    /\ pc = [w \in Workers |-> "idle"]
    /\ snap = [w \in Workers |-> {}]
    /\ locked = [w \in Workers |-> NoRow]
    /\ cur = [w \in Workers |-> NoTask]
    /\ prun = NoRun
    /\ call = NoCall
    /\ db = NoData

\* What the collaborators do in the runs of this specification: no step raises,
\* or the price source raises, before or after part of its bars are stored.
QueueFaults == {f \in Faults : f.step \in {0, 3}}

Next ==
    \/ \E t \in QueueTickers : AddStock(t)
    \/ \E t \in QueueTickers : RefreshStock(t)
    \/ \E w \in Workers : ClaimSnapshot(w)
    \/ \E w \in Workers : ClaimLock(w)
    \/ \E w \in Workers : ClaimUpdate(w)
    \/ \E w \in Workers : \E faults \in [QueueTickers -> QueueFaults] : RunTask(w, faults)
    \/ \E w \in Workers : Wake(w)

\* Any number of worker processes against the store, fed by the API.
Spec == Init /\ [][Next]_vars

(***************************************************************************)
(* One worker process and every producer: the API and the scheduled        *)
(* trigger, over two tracked symbols and every fault of the collaborators. *)
(***************************************************************************)
ScheduledTypes == {"DAILY_UPDATE_ALL", "BACKFILL_DEFAULTS"}

HandlerTickers == {"AAA", "ZZZ"}

TheWorker == "w1"

MaxHandlerTasks == 2

\* A step raises before it writes (partial writes are the pipeline's own matter).
HandlerFaults == {f \in Faults : ~f.partial}

HasRoom == Len(tasks) < MaxHandlerTasks

NextHandlers ==
    \/ \E t \in HandlerTickers : HasRoom /\ AddStock(t)
    \/ \E t \in HandlerTickers : HasRoom /\ RefreshStock(t)
    \/ \E ty \in ScheduledTypes :
          HasRoom /\ Enqueue(ty, None, BackfillPriority, EmptyDict)
    \/ ClaimSnapshot(TheWorker)
    \/ ClaimLock(TheWorker)
    \/ ClaimUpdate(TheWorker)
    \/ \E faults \in [HandlerTickers -> HandlerFaults] : RunTask(TheWorker, faults)
    \/ Wake(TheWorker)

SpecHandlers == Init /\ [][NextHandlers]_vars

(***************************************************************************)
(* A race of claims: some of the workers call claim_next_task once, against *)
(* a store that holds M PENDING rows and gets no new row.                   *)
(***************************************************************************)
RaceWorkers == {"w1", "w2", "w3"}

\* The rows the API creates for the ticker of the race.
RaceRows ==
    {Row(k[1], "ZZZ", k[2], REFRESH_PAYLOAD, c) :
        k \in {<<"BACKFILL_STOCK", BackfillPriority>>,
               <<"REFRESH_STOCK", RefreshPriority>>},
        c \in 1..MaxTasks}

\* Tables of PENDING rows, in the order of their insertion.
RaceTables ==
    {T \in UNION {[1..n -> RaceRows] : n \in 0..MaxTasks} :
        \A i \in DOMAIN T :
            IF i = 1
            THEN T[i].created_at = 1
            ELSE T[i].created_at - T[i - 1].created_at \in {0, 1}}

InitRace ==
    /\ tasks \in RaceTables
    /\ clock = IF tasks = <<>> THEN 0 ELSE tasks[Len(tasks)].created_at
    /\ tracked = {}
    /\ store = {}
    /\ pc \in [RaceWorkers -> {"idle", "stopped"}]
    /\ snap = [w \in RaceWorkers |-> {}]
    /\ locked = [w \in RaceWorkers |-> NoRow]
    /\ cur = [w \in RaceWorkers |-> NoTask]
    /\ prun = NoRun
    /\ call = NoCall
    /\ db = NoData

NextRace ==
    \/ \E w \in RaceWorkers : ClaimSnapshot(w)
    \/ \E w \in RaceWorkers : ClaimLock(w)
    \/ \E w \in RaceWorkers : ClaimUpdate(w)

SpecClaimRace == InitRace /\ [][NextRace]_vars

(***************************************************************************)
(* One call of run_pipeline_for_ticker followed statement by statement:    *)
(* prun is the frame of the call.                                          *)
(***************************************************************************)
PipelineTickers == {"ZZZ", "zzz"}

\* What earlier runs may have left in the store.
EarlierWrites ==
    {<<StepTables[k], "ZZZ">> : k \in {1, 3, 5}} \cup {<<"prices_daily", "AAA">>}

PipelineKwargs(ticker) == RefreshKwargs(ticker, REFRESH_PARAMS)

InitPipeline ==
    /\ tasks = <<>>
    /\ clock = 0
    /\ tracked = {}
    /\ store \in SUBSET EarlierWrites
    /\ pc = [w \in Workers |-> "idle"]
    /\ snap = [w \in Workers |-> {}]
    /\ locked = [w \in Workers |-> NoRow]
    /\ cur = [w \in Workers |-> NoTask]
    /\ prun = NoRun
    /\ call = NoCall
    /\ db = NoData

\* Lines 39-54: the call binds its arguments and builds the summary.
PipelineCall(ticker) ==
    /\ prun.at = "none"
    /\ ~BindRaises(PipelineKwargs(ticker))
    /\ prun' = [at |-> "step", step |-> 1, store0 |-> store, ran |-> {},
                wrote |-> {}, summary |-> NewSummary(Upper(ticker))]
    /\ UNCHANGED <<tasks, clock, tracked, store, workerVars, dataVars>>

\* One step of the try block (lines 57-86) with what its collaborator does: the
\* step returns, or it raises after writing none or part of its rows.
PipelineStep(fault) ==
    /\ prun.at = "step"
    /\ prun.step <= NumSteps
    /\ fault.step \in {0, prun.step}
    /\ LET k == prun.step
           r == RunStep(store, prun.summary.ticker, k, fault)
       IN /\ store' = r.store
          /\ prun' =
               IF r.raised
               THEN [prun EXCEPT !.at = "returned", !.ran = @ \cup {k},
                                 !.wrote = @ \cup (r.store \ store),
                                 !.summary = FailSummary(@, k)]
               ELSE [prun EXCEPT !.step = k + 1, !.ran = @ \cup {k},
                                 !.wrote = @ \cup (r.store \ store),
                                 !.summary = [@ EXCEPT !.steps = @ \cup {StepNames[k]}]]
    /\ UNCHANGED <<tasks, clock, tracked, workerVars, dataVars>>

\* Lines 88 and 96-103: every step returned.
PipelineReturn ==
    /\ prun.at = "step"
    /\ prun.step > NumSteps
    /\ prun' = [prun EXCEPT !.at = "returned", !.summary = OkSummary(@)]
    /\ UNCHANGED <<tasks, clock, tracked, store, workerVars, dataVars>>

NextPipeline ==
    \/ \E t \in PipelineTickers : PipelineCall(t)
    \/ \E f \in Faults : PipelineStep(f)
    \/ PipelineReturn

SpecPipeline == InitPipeline /\ [][NextPipeline]_vars

(***************************************************************************)
(* Properties of the queue under concurrent workers (Spec).                *)
(***************************************************************************)
\* The worker is inside a claim statement.
InClaim(w) == pc[w] \in {"snap", "locked"}

\* This step commits worker w's claim of row i.
ClaimsRow(w, i) == pc[w] = "locked" /\ locked[w] = i /\ pc'[w] = "running"

\* This step is worker w recording the outcome of row i.
FinishesRow(w, i) == pc[w] = "running" /\ cur[w].id = i /\ pc'[w] = "idle"

Owners(i) == {w \in Workers : cur[w].id = i}

\* C1: under any interleaving of claims, no row is handed to two claim calls:
\* no two open claims lock the same row, no two workers hold the same task, a
\* held task is RUNNING, a RUNNING row has exactly one owner, and no row has
\* been claimed more than once.
C1_ExclusiveClaim ==
    /\ \A w, v \in Workers :
          w # v /\ locked[w] # NoRow => locked[w] # locked[v]
    /\ \A w, v \in Workers :
          w # v /\ cur[w].id # 0 => cur[w].id # cur[v].id
    /\ \A w \in Workers :
          cur[w].id # 0 => tasks[cur[w].id].status = "RUNNING"
    /\ \A i \in Ids :
          tasks[i].status = "RUNNING" => Cardinality(Owners(i)) = 1
    /\ \A i \in Ids : tasks[i].attempts <= 1

\* Two workers hold different tasks while a third row is still to be claimed.
C1_Witness ==
    \E w, v \in Workers :
        /\ w # v
        /\ pc[w] = "running" /\ pc[v] = "running"
        /\ cur[w].id # cur[v].id
        /\ \E i \in Ids : tasks[i].status = "PENDING"

\* C3: a claim that runs with no concurrent operation (its snapshot is current
\* and no other claim is in flight) takes a PENDING row that no PENDING row
\* sorts before: none has a higher priority, none of equal priority is older.
\* In particular it does not take a BACKFILL_STOCK row while a REFRESH_STOCK
\* row for the same ticker is PENDING, whatever their enqueue order.
C3_ClaimOrder ==
    [][\A w \in Workers :
          ( /\ pc[w] = "snap" /\ pc'[w] = "locked"
            /\ snap[w] = Pending(tasks)
            /\ \A v \in Workers \ {w} : ~InClaim(v) )
          => /\ locked'[w] \in Pending(tasks)
             /\ \A j \in Pending(tasks) :
                   /\ tasks[j].priority <= tasks[locked'[w]].priority
                   /\ tasks[j].priority = tasks[locked'[w]].priority
                         => tasks[j].created_at >= tasks[locked'[w]].created_at
                   /\ ( /\ tasks[j].task_type = "REFRESH_STOCK"
                        /\ tasks[j].ticker = tasks[locked'[w]].ticker )
                         => tasks[locked'[w]].task_type # "BACKFILL_STOCK"]_vars

\* A REFRESH_STOCK row is taken although a BACKFILL_STOCK row for the same ticker
\* was enqueued before it and is still PENDING, and no other claim is in flight.
C3_Witness ==
    \E w \in Workers :
        /\ pc[w] = "locked"
        /\ \A v \in Workers \ {w} : ~InClaim(v)
        /\ tasks[locked[w]].task_type = "REFRESH_STOCK"
        /\ \E j \in Ids :
              /\ j < locked[w]
              /\ tasks[j].status = "PENDING"
              /\ tasks[j].task_type = "BACKFILL_STOCK"
              /\ tasks[j].ticker = tasks[locked[w]].ticker

\* C4: attempts of a row grows by exactly 1 in the step that commits a claim of
\* the row and is left alone by every other step (enqueue, empty claim,
\* complete, fail), so it never decreases.
C4_AttemptsPerClaim ==
    [][\A i \in Ids :
          IF \E w \in Workers : ClaimsRow(w, i)
          THEN tasks'[i].attempts = tasks[i].attempts + 1
          ELSE tasks'[i].attempts = tasks[i].attempts]_vars

\* One claimed row ended DONE and another ERROR, each with one attempt counted.
C4_Witness ==
    \E i, j \in Ids :
        /\ tasks[i].status = "DONE" /\ tasks[i].attempts = 1
        /\ tasks[j].status = "ERROR" /\ tasks[j].attempts = 1

\* C5: the status of a row changes only PENDING -> RUNNING, in the step that
\* commits a claim of it, and RUNNING -> DONE or RUNNING -> ERROR, in the step
\* in which its owner records the outcome; no row is deleted.
C5_StatusTransitions ==
    [][/\ Len(tasks') >= Len(tasks)
       /\ \A i \in Ids :
             \/ tasks'[i].status = tasks[i].status
             \/ /\ tasks[i].status = "PENDING" /\ tasks'[i].status = "RUNNING"
                /\ \E w \in Workers : ClaimsRow(w, i)
             \/ /\ tasks[i].status = "RUNNING"
                /\ tasks'[i].status \in {"DONE", "ERROR"}
                /\ \E w \in Workers : FinishesRow(w, i)]_vars

\* Rows that were claimed are RUNNING, DONE and ERROR at the same time.
C5_Witness ==
    \A s \in {"RUNNING", "DONE", "ERROR"} :
        \E i \in Ids : tasks[i].status = s /\ tasks[i].attempts = 1

\* C6: a row in ERROR stays in ERROR in every step, and no claim locks it or
\* returns it, whatever happens to the other rows.
C6_ErrorIsTerminal ==
    [][\A i \in Ids :
          tasks[i].status = "ERROR"
          => /\ tasks'[i].status = "ERROR"
             /\ tasks'[i].attempts = tasks[i].attempts
             /\ \A w \in Workers : locked'[w] # i /\ cur'[w].id # i]_vars

\* A row is in ERROR, another row is RUNNING, and a claim whose statement
\* snapshot still lists the ERROR row is in flight.
C6_Witness ==
    \E i, j \in Ids :
        /\ tasks[i].status = "ERROR"
        /\ tasks[j].status = "RUNNING"
        /\ \E w \in Workers : pc[w] = "snap" /\ i \in snap[w]

(***************************************************************************)
(* Properties of a race of claims (SpecClaimRace).                         *)
(***************************************************************************)
Min(a, b) == IF a <= b THEN a ELSE b

RaceAttempts == {w \in DOMAIN pc : pc[w] # "stopped"}

RaceGot == {w \in DOMAIN pc : pc[w] = "running"}

RaceGotNone == {w \in DOMAIN pc : pc[w] = "sleeping"}

RaceOver == RaceAttempts = RaceGot \cup RaceGotNone

\* C2: when N concurrent claim attempts against M PENDING rows are over, exactly
\* min(N, M) of them have returned a task, each a different row, and the others
\* have returned None; a claim whose snapshot holds locked rows is never
\* blocked (its scan can always proceed), and no row is claimed twice.
C2_ClaimCount ==
    /\ RaceOver =>
          /\ Cardinality(RaceGot) = Min(Cardinality(RaceAttempts), Len(tasks))
          /\ Cardinality({cur[w].id : w \in RaceGot}) = Cardinality(RaceGot)
          /\ {cur[w].id : w \in RaceGot} = {i \in Ids : tasks[i].status = "RUNNING"}
    /\ \A w \in DOMAIN pc : pc[w] = "snap" => ENABLED ClaimLock(w)
    /\ \A i \in Ids : tasks[i].attempts <= 1

\* Three attempts against two rows are over: two got a row and one got None.
C2_Witness ==
    /\ RaceOver
    /\ Cardinality(RaceAttempts) = 3
    /\ Len(tasks) = 2
    /\ Cardinality(RaceGot) = 2
    /\ Cardinality(RaceGotNone) = 1

(***************************************************************************)
(* Properties of one pipeline run (SpecPipeline).                          *)
(***************************************************************************)
PipelineFailed == prun.at = "returned" /\ "error" \in DOMAIN prun.summary

\* C8: when step k raises, the run has executed steps 1..k and no later step,
\* the summary carries success = false, the error, and results for steps
\* 1..k-1 only, and the store still holds what it held before the call plus
\* every row the steps 1..k wrote (the part step k wrote included): nothing
\* is rolled back, and nothing of a later step is written.
C8_NoRollback ==
    /\ prun.at # "none" => prun.store0 \cup prun.wrote \subseteq store
    /\ PipelineFailed =>
          LET k == prun.summary.error.step
              t == prun.summary.ticker
          IN /\ k \in 1..NumSteps
             /\ prun.ran = 1..k
             /\ prun.summary.success = FALSE
             /\ prun.summary.steps = {StepNames[j] : j \in 1..(k - 1)}
             /\ \A j \in 1..(k - 1) : StepWrites(t, j) \subseteq store
             /\ store \subseteq prun.store0 \cup UNION {StepWrites(t, j) : j \in 1..k}

\* The price step raised after storing part of the bars: the bars and the items
\* and scores of the steps before it are in the store, the metrics are not.
C8_Witness ==
    /\ PipelineFailed
    /\ prun.summary.error.step = 3
    /\ prun.wrote = {<<"items", "ZZZ">>, <<"item_scores", "ZZZ">>, <<"prices_daily", "ZZZ">>}
    /\ <<"metrics_windowed", "ZZZ">> \notin store

(***************************************************************************)
(* Properties of the handlers (SpecHandlers).                              *)
(***************************************************************************)
Finished(i) == tasks[i].status \in {"DONE", "ERROR"}

HasResult(i) == "result" \in DOMAIN tasks[i].payload

\* The row records that a pipeline step raised: in the summary stored as its
\* result, or as the exception stored as its error.
StepFailureRecorded(i) ==
    \/ /\ HasResult(i)
       /\ "success" \in DOMAIN tasks[i].payload.result
       /\ ~tasks[i].payload.result.success
    \/ tasks[i].error.step > 0

\* C7: a REFRESH_STOCK task during which a pipeline step raised ends in status
\* ERROR, not DONE.
C7_FailedRefreshEndsError ==
    \A i \in Ids :
        ( /\ tasks[i].task_type = "REFRESH_STOCK"
          /\ Finished(i)
          /\ StepFailureRecorded(i) )
        => tasks[i].status = "ERROR"

SummaryKeys == {"ticker", "steps", "elapsed_seconds", "success"}

\* C9: no call a handler makes to run_pipeline_for_ticker raises: no task row
\* records an exception of the call as its error, no entry of a per-ticker
\* loop records one, and a finished per-ticker task holds the summary the call
\* returned.
C9_PipelineNeverRaises ==
    \A i \in Ids :
        /\ tasks[i].error.msg # UnexpectedKeywordError.msg
        /\ tasks[i].error.step = 0
        /\ ( /\ tasks[i].task_type \in {"REFRESH_STOCK", "BACKFILL_STOCK"}
             /\ TruthyStr(tasks[i].ticker)
             /\ Finished(i) )
           => /\ HasResult(i)
              /\ SummaryKeys \subseteq DOMAIN tasks[i].payload.result
        /\ ( /\ tasks[i].task_type \in {"DAILY_UPDATE_ALL", "BACKFILL_DEFAULTS"}
             /\ HasResult(i) )
           => \A t \in DOMAIN tasks[i].payload.result.results :
                 "error" \notin DOMAIN tasks[i].payload.result.results[t]

\* C10: a finished BACKFILL_STOCK task that names a ticker and records no
\* failure of a pipeline step is DONE, and the five steps ran for its ticker:
\* the summary lists them and the windowed metrics are in the store.
C10_BackfillRunsPipeline ==
    \A i \in Ids :
        ( /\ tasks[i].task_type = "BACKFILL_STOCK"
          /\ TruthyStr(tasks[i].ticker)
          /\ Finished(i)
          /\ ~StepFailureRecorded(i) )
        => /\ tasks[i].status = "DONE"
           /\ HasResult(i)
           /\ tasks[i].payload.result.success
           /\ tasks[i].payload.result.steps = {StepNames[k] : k \in 1..NumSteps}
           /\ <<"metrics_windowed", tasks[i].ticker>> \in store

(***************************************************************************)
(* complete_task on its own: the owner of a RUNNING row records a result,  *)
(* an error string, or the exception of its handler (run_once, lines       *)
(* 322-333), for rows of every payload and attempt count.                  *)
(***************************************************************************)
ParamKeys == {"window_days", "note"}

ParamValues == {7, 30}

\* Payloads without a result.
ParamDicts == UNION {[K -> ParamValues] : K \in SUBSET ParamKeys}

\* What a handler returns: nothing, or a summary.
Results ==
    {EmptyDict, [success |-> TRUE], [success |-> FALSE, error |-> StepError(3)]}

\* The payloads of the rows: the payload is whatever the producer of the task
\* stored, a "result" key included.
Payloads ==
    ParamDicts \cup
    {Merge(d, [result |-> r]) : d \in ParamDicts, r \in Results \ {EmptyDict}}

\* Error strings: empty, short, of exactly the limit, and longer.
ErrorStrings ==
    {Exc("", 0), Exc("boom", 4), Exc("long", ErrorLimit), Exc("longer", ErrorLimit + 1)}

RunningRow(payload, attempts) ==
    [Row("REFRESH_STOCK", "ZZZ", RefreshPriority, payload, 1)
        EXCEPT !.status = "RUNNING", !.attempts = attempts]

InitComplete ==
    /\ tasks \in {<<RunningRow(p, a)>> : p \in Payloads, a \in 1..MAX_ATTEMPTS}
    /\ clock = 1
    /\ tracked = {}
    /\ store = {}
    /\ pc = [w \in Workers |-> "idle"]
    /\ snap = [w \in Workers |-> {}]
    /\ locked = [w \in Workers |-> NoRow]
    /\ cur = [w \in Workers |-> NoTask]
    /\ prun = NoRun
    /\ call = NoCall
    /\ db = NoData

\* complete_task(task_id, result=result)
Complete(i, result) ==
    /\ tasks[i].status = "RUNNING"
    /\ tasks' = complete_task(tasks, i, result, NoError)
    /\ call' = [op |-> "complete", id |-> i, before |-> tasks[i], result |-> result]
    /\ UNCHANGED <<clock, tracked, store, workerVars, prun, db>>

\* complete_task(task_id, error=error)
Fail(i, error) ==
    /\ tasks[i].status = "RUNNING"
    /\ tasks' = complete_task(tasks, i, EmptyDict, error)
    /\ call' = [op |-> "fail", id |-> i, before |-> tasks[i], error |-> error]
    /\ UNCHANGED <<clock, tracked, store, workerVars, prun, db>>

\* The except clause of run_once: the handler raised an exception whose str() is
\* the given string.
HandlerRaised(i, exc) ==
    /\ tasks[i].status = "RUNNING"
    /\ tasks' = RecordOutcome(tasks, TaskDict(tasks, i), Raises(exc, store))
    /\ call' = [op |-> "raised", id |-> i, before |-> tasks[i], error |-> exc]
    /\ UNCHANGED <<clock, tracked, store, workerVars, prun, db>>

NextComplete ==
    \/ \E i \in Ids : \E r \in Results : Complete(i, r)
    \/ \E i \in Ids : \E e \in ErrorStrings : Fail(i, e)
    \/ \E i \in Ids : \E e \in ErrorStrings : HandlerRaised(i, e)

SpecComplete == InitComplete /\ [][NextComplete]_vars

\* C11: complete(task_id, result) sets the row DONE and keeps every key the
\* payload had before the call, with the value it had.
C11_AdditiveMerge ==
    call.op = "complete" =>
        /\ tasks[call.id].status = "DONE"
        /\ \A k \in DOMAIN call.before.payload :
              /\ k \in DOMAIN tasks[call.id].payload
              /\ tasks[call.id].payload[k] = call.before.payload[k]

\* C12: fail(task_id, error), called directly or by the except clause of
\* run_once, sets the row ERROR with a stored message of at most 1000
\* characters, whatever the error string.
C12_FailSetsError ==
    call.op \in {"fail", "raised"} =>
        /\ tasks[call.id].status = "ERROR"
        /\ tasks[call.id].error.len <= ErrorLimit

(***************************************************************************)
(* The enqueue endpoints (api/routers/stocks.py) as a client reaches them: *)
(* any ticker string, against a store that is configured or not.  A ticker *)
(* string is the sequence of its characters.                               *)
(***************************************************************************)
MaxApiTasks == 2

MaxTickerLength == 6

Whitespace == {" "}

UpperAlnum == {"A", "Z", "7"}

\* c.upper()
UpperChar(c) == CASE c = "a" -> "A" [] c = "z" -> "Z" [] OTHER -> c

\* s.upper()
UpperChars(s) == [i \in 1..Len(s) |-> UpperChar(s[i])]

\* s.strip()
RECURSIVE Strip(_)
Strip(s) ==
    IF s = <<>> THEN s
    ELSE IF s[1] \in Whitespace THEN Strip(Tail(s))
    ELSE IF s[Len(s)] \in Whitespace THEN Strip(SubSeq(s, 1, Len(s) - 1))
    ELSE s

\* re.match(r'^[A-Z0-9]{1,6}$', s), for a string that ends in no line break
MatchesTicker(s) ==
    /\ Len(s) >= 1
    /\ Len(s) <= MaxTickerLength
    /\ \A i \in 1..Len(s) : s[i] \in UpperAlnum

\* A validation that only normalises.
validate_ticker_unchecked(raw) ==
    [ok |-> TRUE, ticker |-> Strip(UpperChars(raw))]

\* validate_ticker: the normalised ticker, or HTTPException(400).
validate_ticker(raw) ==
    LET ticker == Strip(UpperChars(raw))
    IN [ok |-> MatchesTicker(ticker), ticker |-> ticker]

\* The response of an endpoint and what the request did to the store.
Response(op, raw, configured, status, queued) ==
    [op |-> op, request |-> raw, configured |-> configured, status |-> status,
     queued |-> queued, inserted |-> Len(tasks') > Len(tasks),
     tracked_before |-> tracked]

\* POST /api/stocks
add_stock(raw, configured) ==
    LET v == validate_ticker(raw) IN
    /\ Len(tasks) < MaxApiTasks
    /\ IF ~v.ok
       THEN /\ UNCHANGED <<tasks, clock, tracked>>
            /\ call' = Response("add_stock", raw, configured, 400, FALSE)
       ELSE IF ~configured
       THEN /\ UNCHANGED <<tasks, clock, tracked>>
            /\ call' = Response("add_stock", raw, configured, 200, TRUE)
       ELSE /\ tracked' = tracked \cup {v.ticker}
            /\ Insert(NewTask("BACKFILL_STOCK", v.ticker, BackfillPriority,
                              REFRESH_PAYLOAD))
            /\ call' = Response("add_stock", raw, configured, 200, TRUE)
    /\ UNCHANGED <<store, workerVars, prun, db>>

\* POST /api/stocks/refresh
refresh_stock(raw, configured) ==
    LET v == validate_ticker(raw) IN
    /\ Len(tasks) < MaxApiTasks
    /\ IF ~v.ok
       THEN /\ UNCHANGED <<tasks, clock>>
            /\ call' = Response("refresh_stock", raw, configured, 400, FALSE)
       ELSE IF ~configured
       THEN /\ UNCHANGED <<tasks, clock>>
            /\ call' = Response("refresh_stock", raw, configured, 200, TRUE)
       ELSE /\ Insert(NewTask("REFRESH_STOCK", v.ticker, RefreshPriority,
                              REFRESH_PAYLOAD))
            /\ call' = Response("refresh_stock", raw, configured, 200, TRUE)
    /\ UNCHANGED <<tracked, store, workerVars, prun, db>>

\* The ticker strings of the requests: empty, blank, lower case, padded, with a
\* character outside the pattern, of the longest length and one longer.
RequestTickers ==
    { <<>>, <<" ">>, <<"a", "z">>, <<" ", "A", "7", " ">>, <<"A", "-", "Z">>,
      <<"A", " ", "Z">>, <<"Z", "Z", "Z", "Z", "Z", "Z">>,
      <<"Z", "Z", "Z", "Z", "Z", "Z", "Z">> }

NextApi ==
    \/ \E raw \in RequestTickers : \E configured \in BOOLEAN : add_stock(raw, configured)
    \/ \E raw \in RequestTickers : \E configured \in BOOLEAN : refresh_stock(raw, configured)

SpecApi == Init /\ [][NextApi]_vars

ApiCall == call.op \in {"add_stock", "refresh_stock"}

\* C13: with the store not configured the endpoints answer with an error and
\* not with queued = true; no response says queued = true without a row
\* having been inserted.
C13_NotConfiguredSurfaced ==
    ApiCall =>
        /\ ~call.configured => call.status # 200 /\ ~call.queued
        /\ call.queued => call.inserted

\* C14: a request whose ticker, upper-cased and trimmed, is not 1 to 6
\* characters of A-Z/0-9 is rejected with no row inserted and tracked_stocks
\* as it was; every row of the endpoints has a ticker of that pattern and
\* status PENDING.
C14_InvalidTickerRejected ==
    /\ ApiCall =>
          LET t == Strip(UpperChars(call.request))
              wellFormed == /\ Len(t) \in 1..6
                            /\ \A i \in 1..Len(t) : t[i] \in UpperAlnum
          IN ~wellFormed =>
                /\ call.status = 400
                /\ ~call.inserted
                /\ tracked = call.tracked_before
    /\ \A i \in Ids :
          /\ Len(tasks[i].ticker) \in 1..6
          /\ \A j \in 1..Len(tasks[i].ticker) : tasks[i].ticker[j] \in UpperAlnum
          /\ tasks[i].status = "PENDING"

\* A ticker one character too long has been rejected by add_stock after a
\* padded lower-case one was taken in its normal form.
C14_Witness ==
    /\ call.op = "add_stock"
    /\ call.configured
    /\ Len(call.request) = MaxTickerLength + 1
    /\ call.status = 400
    /\ \E i \in Ids : tasks[i].ticker = <<"A", "7">>
    /\ <<"A", "7">> \in tracked

(***************************************************************************)
(* The one-shot entry points: `worker.py --once` (worker.py, lines         *)
(* 357-361) and `run_local.py worker-once` (run_local.py, lines 131-146    *)
(* and 195-207).  The program is started, calls run_once and exits; the    *)
(* API fills the queue meanwhile.                                          *)
(***************************************************************************)
EntryPoints == {"worker.py --once", "run_local.py worker-once"}

\* Rows that have been claimed.
Claimed(T) == {i \in 1..Len(T) : T[i].status # "PENDING"}

\* The program starts and run_once calls claim_next_task, whose statement
\* takes its snapshot.
Launch(entry, w) ==
    /\ pc[w] = "stopped"
    /\ pc' = [pc EXCEPT ![w] = "snap"]
    /\ snap' = [snap EXCEPT ![w] = Pending(tasks)]
    /\ call' = [op |-> "oneshot", entry |-> entry, at |-> "run_once",
                claimed_before |-> Claimed(tasks)]
    /\ UNCHANGED <<tasks, clock, tracked, store, locked, cur, prun, db>>

\* The exit code of the process for what run_once returned: worker.py drops the
\* value and ends normally, run_local.py ends with sys.exit(0 if success else 1).
ExitCode(entry, processed) ==
    IF entry = "worker.py --once" THEN 0
    ELSE IF processed THEN 0 ELSE 1

\* run_once has returned (False after an empty claim, True after a task) and
\* the process exits.
Exit(w) ==
    /\ call.op = "oneshot"
    /\ call.at = "run_once"
    /\ pc[w] \in {"sleeping", "idle"}
    /\ LET processed == pc[w] = "idle" IN
       call' = [call EXCEPT !.at = "exited"] @@
               [processed |-> processed, code |-> ExitCode(call.entry, processed),
                claimed_after |-> Claimed(tasks)]
    /\ pc' = [pc EXCEPT ![w] = "stopped"]
    /\ UNCHANGED <<tasks, clock, tracked, store, snap, locked, cur, prun, db>>

InitOneShot ==
    /\ tasks = <<>>
    /\ clock = 0
    /\ tracked = {}
    /\ store = {}
    /\ pc = [w \in {TheWorker} |-> "stopped"]
    /\ snap = [w \in {TheWorker} |-> {}]
    /\ locked = [w \in {TheWorker} |-> NoRow]
    /\ cur = [w \in {TheWorker} |-> NoTask]
    /\ prun = NoRun
    /\ call = NoCall
    /\ db = NoData

NextOneShot ==
    \/ \E t \in QueueTickers : HasRoom /\ AddStock(t)
    \/ \E t \in QueueTickers : HasRoom /\ RefreshStock(t)
    \/ \E e \in EntryPoints : Launch(e, TheWorker)
    \/ ClaimLock(TheWorker)
    \/ ClaimUpdate(TheWorker)
    \/ \E faults \in [QueueTickers -> QueueFaults] : RunTask(TheWorker, faults)
    \/ Exit(TheWorker)

SpecOneShot == InitOneShot /\ [][NextOneShot]_vars

\* C15: a one-shot program claims and runs at most one task, and exits with
\* code 0 if it claimed and ran one and with a non-zero code if its claim found
\* no PENDING row.
C15_OneShotExitCode ==
    (call.op = "oneshot" /\ call.at = "exited") =>
        /\ Cardinality(call.claimed_after \ call.claimed_before) <= 1
        /\ call.processed <=> call.claimed_after # call.claimed_before
        /\ call.processed => call.code = 0
        /\ ~call.processed => call.code # 0

(***************************************************************************)
(* _compute_window_metrics (jobs/pipeline.py, lines 304-346).              *)
(* Sentiments and returns are integers in thousandths; the floats of the   *)
(* code are the real numbers they stand for.  The correlation is kept as   *)
(* n / sqrt(ss * sr) and compared with rationals by squaring, in           *)
(* multi-digit arithmetic; the values the function returns are rounded to  *)
(* four decimals and given in ten-thousandths.                             *)
(***************************************************************************)
\* Naturals as sequences of digits, lowest digit first.
Base == 10000

RECURSIVE Big(_)
Big(n) == IF n < Base THEN <<n>> ELSE <<n % Base>> \o Big(n \div Base)

RECURSIVE SumTo(_, _)
SumTo(f, n) == IF n = 0 THEN 0 ELSE f[n] + SumTo(f, n - 1)

RECURSIVE Carry(_, _, _)
Carry(c, k, carry) ==
    IF k > Len(c)
    THEN IF carry = 0 THEN <<>> ELSE Big(carry)
    ELSE <<(c[k] + carry) % Base>> \o Carry(c, k + 1, (c[k] + carry) \div Base)

RECURSIVE Trim(_)
Trim(x) ==
    IF Len(x) > 1 /\ x[Len(x)] = 0 THEN Trim(SubSeq(x, 1, Len(x) - 1)) ELSE x

BigMul(x, y) ==
    LET coef(k) ==
            SumTo([i \in 1..Len(x) |->
                      IF k + 1 - i \in 1..Len(y) THEN x[i] * y[k + 1 - i] ELSE 0],
                  Len(x))
    IN Trim(Carry([k \in 1..(Len(x) + Len(y) - 1) |-> coef(k)], 1, 0))

RECURSIVE BigLEFrom(_, _, _)
BigLEFrom(x, y, k) ==
    IF k = 0 THEN TRUE
    ELSE IF x[k] # y[k] THEN x[k] < y[k]
    ELSE BigLEFrom(x, y, k - 1)

BigLE(x, y) == IF Len(x) # Len(y) THEN Len(x) < Len(y) ELSE BigLEFrom(x, y, Len(x))

Abs(x) == IF x < 0 THEN -x ELSE x

BigSquare(n) == BigMul(Big(Abs(n)), Big(Abs(n)))

\* The values are given with four decimals.
Units == 10000

\* np.sum(v) and np.sum(v * w)
Sum(v) == SumTo(v, Len(v))

Dot(v, w) == SumTo([i \in 1..Len(v) |-> v[i] * w[i]], Len(v))

\* len(v)^2 times the variance of v
SumSquares(v) == Len(v) * Dot(v, v) - Sum(v) * Sum(v)

\* np.std(v) == 0
FlatExactly(v) == SumSquares(v) = 0

\* np.std(v) < 0.001, for v in thousandths
Flat(v) == SumSquares(v) < Len(v) * Len(v)

\* The number 0 as a correlation.
ZeroCorr == [n |-> 0, ss |-> 1, sr |-> 1]

\* Lines 312-317: 0.0 for a flat series, else np.corrcoef(s, r)[0, 1], the
\* number n / sqrt(ss * sr) (not NaN, since neither factor is 0).
Corr(sentiments, returns) ==
    IF Flat(sentiments) \/ Flat(returns)
    THEN ZeroCorr
    ELSE [n |-> Len(sentiments) * Dot(sentiments, returns)
                    - Sum(sentiments) * Sum(returns),
          ss |-> SumSquares(sentiments), sr |-> SumSquares(returns)]

\* c >= a / b, for b > 0
CorrGE(c, a, b) ==
    LET lhs == BigMul(BigSquare(c.n), BigSquare(b))
        rhs == BigMul(BigSquare(a), BigMul(Big(c.ss), Big(c.sr)))
    IN IF a <= 0
       THEN c.n >= 0 \/ BigLE(lhs, rhs)
       ELSE c.n > 0 /\ BigLE(rhs, lhs)

\* The number (cn / cd) * c + v / w, with cn, cd, w > 0.
Lin(c, cn, cd, v, w) == [c |-> c, cn |-> cn, cd |-> cd, v |-> v, w |-> w]

Rational(v, w) == Lin(ZeroCorr, 1, 1, v, w)

Neg(x) == [x EXCEPT !.c.n = -@, !.v = -@]

\* x >= p / q, for q > 0
LinGE(x, p, q) == CorrGE(x.c, (p * x.w - x.v * q) * x.cd, q * x.w * x.cn)

\* x <= p / q
LinLE(x, p, q) == LinGE(Neg(x), -p, q)

\* A sign that takes 0 for positive.
SignBinary(x) == IF x >= 0 THEN 1 ELSE -1

\* np.sign
Sign(x) == IF x > 0 THEN 1 ELSE IF x < 0 THEN -1 ELSE 0

\* Lines 320-322: np.sum(np.sign(sentiments) == np.sign(returns))
Matches(sentiments, returns) ==
    Cardinality({i \in 1..Len(sentiments) : Sign(sentiments[i]) = Sign(returns[i])})

\* corr + (directional_match * 2 - 1)
AlignmentUnweighted(c, matches, W) == Lin(c, 1, 1, 2 * matches - W, W)

\* Line 329: 0.5 * corr + 0.5 * (directional_match * 2 - 1)
Alignment(c, matches, W) == Lin(c, 1, 2, 2 * matches - W, 2 * W)

\* Line 330: max(-1.0, min(1.0, x))
Clamp(x) ==
    IF LinGE(x, 1, 1) THEN Rational(1, 1)
    ELSE IF LinLE(x, -1, 1) THEN Rational(-1, 1)
    ELSE x

\* The greatest k in lo..hi with x >= (2k - 1) / (2 * Units).
RECURSIVE Nearest(_, _, _)
Nearest(x, lo, hi) ==
    IF lo = hi THEN lo
    ELSE LET mid == (lo + hi + 1) \div 2
         IN IF LinGE(x, 2 * mid - 1, 2 * Units)
            THEN Nearest(x, mid, hi)
            ELSE Nearest(x, lo, mid - 1)

\* round(x, 4) for -1 <= x <= 1, in ten-thousandths; a number half way between
\* two goes to the even one.
Round4(x) ==
    LET k == Nearest(x, -Units, Units)
    IN IF LinLE(x, 2 * k - 1, 2 * Units) /\ k % 2 = 1 THEN k - 1 ELSE k

\* Lines 333-338
Interpretation(x) ==
    IF LinGE(x, 3, 10) THEN "Aligned"
    ELSE IF LinLE(x, -3, 10) THEN "Misleading"
    ELSE "Noisy"

compute_window_metrics(sentiments, returns) ==
    LET W == Len(sentiments)
        corr == Corr(sentiments, returns)
        matches == Matches(sentiments, returns)
        alignment_score == Clamp(Alignment(corr, matches, W))
    IN [corr |-> Round4(Lin(corr, 1, 1, 0, 1)),
        directional_match |-> Round4(Rational(matches, W)),
        alignment_score |-> Round4(alignment_score),
        misalignment_days |-> W - matches,
        interpretation |-> Interpretation(alignment_score)]

(***************************************************************************)
(* One call of _compute_window_metrics for every window of the bounds.     *)
(***************************************************************************)
MaxWindow == 3

\* Daily sentiment averages, in thousandths.
SentimentValues == {-70, 0, 1}

\* Daily returns, in thousandths of a percent.
ReturnValues == {-40, 0, 70}

InitMetrics ==
    /\ tasks = <<>>
    /\ clock = 0
    /\ tracked = {}
    /\ store = {}
    /\ pc = [w \in Workers |-> "idle"]
    /\ snap = [w \in Workers |-> {}]
    /\ locked = [w \in Workers |-> NoRow]
    /\ cur = [w \in Workers |-> NoTask]
    /\ prun = NoRun
    /\ \E W \in 1..MaxWindow :
          \E s \in [1..W -> SentimentValues] : \E r \in [1..W -> ReturnValues] :
             call = [op |-> "window", sentiments |-> s, returns |-> r]
    /\ db = NoData

\* metrics = _compute_window_metrics(sentiments_window, returns_window)
ComputeWindow ==
    /\ call.op = "window"
    /\ call' = [op |-> "metrics", sentiments |-> call.sentiments,
                returns |-> call.returns,
                metrics |-> compute_window_metrics(call.sentiments, call.returns)]
    /\ UNCHANGED <<tasks, clock, tracked, store, workerVars, prun, db>>

NextMetrics == ComputeWindow

SpecMetrics == InitMetrics /\ [][NextMetrics]_vars

(***************************************************************************)
(* Properties of the window metrics (SpecMetrics).                         *)
(***************************************************************************)
MetricsDone == call.op = "metrics"

\* The positions of the window whose sentiment and return have the same sign,
\* the sign of 0 being 0.
SameSign(s, r) ==
    {i \in 1..Len(s) :
        \/ s[i] > 0 /\ r[i] > 0
        \/ s[i] = 0 /\ r[i] = 0
        \/ s[i] < 0 /\ r[i] < 0}

\* C16 as stated: directional_match is exactly (matching-sign positions) / W, in
\* [0, 1], and misalignment_days = W - matching positions = W -
\* directional_match * W, an integer in [0, W].
C16_DirectionalMatchExact ==
    MetricsDone =>
        LET W == Len(call.sentiments)
            m == Cardinality(SameSign(call.sentiments, call.returns))
            dm == call.metrics.directional_match
            days == call.metrics.misalignment_days
        IN /\ dm * W = m * 10000
           /\ dm \in 0..10000
           /\ days = W - m
           /\ days \in 0..W
           /\ days * 10000 = W * 10000 - dm * W

\* C16: directional_match is (matching-sign positions) / W rounded to four
\* decimals, in [0, 1]; misalignment_days = W - matching positions, an integer
\* in [0, W], which is W - directional_match * W up to that rounding.
C16_DirectionalMatch ==
    MetricsDone =>
        LET W == Len(call.sentiments)
            m == Cardinality(SameSign(call.sentiments, call.returns))
            dm == call.metrics.directional_match
            days == call.metrics.misalignment_days
        IN /\ 2 * Abs(dm * W - m * 10000) <= W
           /\ dm \in 0..10000
           /\ days = W - m
           /\ days \in 0..W
           /\ 2 * Abs((W * 10000 - dm * W) - days * 10000) <= W

\* The metrics of a window of three days of which one matches: directional_match
\* is 0.3333 and two days are misaligned.
C16_Witness ==
    /\ MetricsDone
    /\ Len(call.sentiments) = 3
    /\ call.metrics.directional_match = 3333
    /\ call.metrics.misalignment_days = 2

\* 0.5 * corr + 0.5 * (2 * m / W - 1) >= p / q, for the correlation c of the
\* window, m matching positions and q > 0
ScoreGE(c, m, W, p, q) == CorrGE(c, 2 * p * W - q * (2 * m - W), q * W)

\* 0.5 * corr + 0.5 * (2 * m / W - 1) <= p / q
ScoreLE(c, m, W, p, q) ==
    CorrGE([c EXCEPT !.n = -@], q * (2 * m - W) - 2 * p * W, q * W)

\* C17 as stated: the alignment_score returned is exactly 0.5 * corr + 0.5 *
\* (2 * directional_match - 1) clamped to [-1, 1], and lies in [-1, 1].
C17_AlignmentScoreExact ==
    MetricsDone =>
        LET W == Len(call.sentiments)
            m == Cardinality(SameSign(call.sentiments, call.returns))
            c == Corr(call.sentiments, call.returns)
            k == call.metrics.alignment_score
        IN /\ k \in -10000..10000
           /\ ScoreGE(c, m, W, k, 10000)
           /\ ScoreLE(c, m, W, k, 10000)

\* C17: the alignment_score returned is 0.5 * corr + 0.5 * (2 * directional_match
\* - 1), of the correlation and the match ratio of the window, clamped to
\* [-1, 1] and rounded to four decimals; it lies in [-1, 1].
C17_AlignmentScore ==
    MetricsDone =>
        LET W == Len(call.sentiments)
            m == Cardinality(SameSign(call.sentiments, call.returns))
            c == Corr(call.sentiments, call.returns)
            k == call.metrics.alignment_score
        IN /\ k \in -10000..10000
           /\ ScoreGE(c, m, W, 2 * k - 1, 20000)
           /\ ScoreLE(c, m, W, 2 * k + 1, 20000)

\* The metrics of a window of three days whose series are correlated, neither
\* perfectly nor not at all, and whose score is inside the range.
C17_Witness ==
    /\ MetricsDone
    /\ Len(call.sentiments) = 3
    /\ call.metrics.corr \notin {-10000, 0, 10000}
    /\ call.metrics.alignment_score \notin {-10000, 0, 10000}
    /\ call.metrics.directional_match = 6667

\* C18: the interpretation of a result agrees with the alignment_score of the
\* same result: "Aligned" exactly when it is >= 0.3, "Misleading" exactly when
\* it is <= -0.3, "Noisy" otherwise.
C18_InterpretationAgrees ==
    MetricsDone =>
        LET k == call.metrics.alignment_score
            label == call.metrics.interpretation
        IN /\ label = "Aligned" <=> k >= 3000
           /\ label = "Misleading" <=> k <= -3000
           /\ label = "Noisy" <=> (k > -3000 /\ k < 3000)

(***************************************************************************)
(* ingest_prices (jobs/pipeline.py, lines 134-175).  prices_daily is a     *)
(* function from (ticker, date) to the bar's close and return_1d; a        *)
(* return is the number num / den, or NULL.                                *)
(***************************************************************************)
MaxDates == 3

Dates == 1..MaxDates

PriceTickers == {"AAA", "ZZZ"}

Closes == {100, 110}

Null == [null |-> TRUE, num |-> 0, den |-> 1]

Number(num, den) == [null |-> FALSE, num |-> num, den |-> den]

\* What fetch_daily_prices returns: bars for some of the dates, or none.
Fetches == UNION {[D -> Closes] : D \in SUBSET Dates}

\* Lines 144-156: INSERT ... ON CONFLICT (ticker, date) DO UPDATE SET close = ...
\* (return_1d is not written: NULL in a new row, kept in an old one).
UpsertPrices(table, ticker, prices) ==
    [k \in DOMAIN table \cup {<<ticker, d>> : d \in DOMAIN prices} |->
        IF k[1] = ticker /\ k[2] \in DOMAIN prices
        THEN [close |-> prices[k[2]],
              return_1d |-> IF k \in DOMAIN table THEN table[k].return_1d ELSE Null]
        ELSE table[k]]

\* The date of the calendar day before, when the ticker has a bar on it.
LagPreviousDay(table, ticker, date) ==
    {e \in Dates : <<ticker, e>> \in DOMAIN table /\ e = date - 1}

\* LAG(close) OVER (PARTITION BY ticker ORDER BY date): the date of the bar
\* before, none for the first bar.
Lag(table, ticker, date) ==
    {e \in Dates :
        /\ <<ticker, e>> \in DOMAIN table
        /\ e < date
        /\ \A f \in Dates : (<<ticker, f>> \in DOMAIN table /\ f < date) => f <= e}

\* (close - LAG(close)) / NULLIF(LAG(close), 0) * 100
Return1d(table, ticker, date) ==
    LET lag == Lag(table, ticker, date) IN
    IF lag = {} THEN Null
    ELSE LET previous == table[<<ticker, CHOOSE e \in lag : TRUE>>].close IN
         IF previous = 0 THEN Null
         ELSE Number((table[<<ticker, date>>].close - previous) * 100, previous)

\* Lines 159-173: UPDATE prices_daily SET return_1d = ... for the ticker's rows.
RecomputeReturns(table, ticker) ==
    [k \in DOMAIN table |->
        IF k[1] = ticker
        THEN [table[k] EXCEPT !.return_1d = Return1d(table, ticker, k[2])]
        ELSE table[k]]

ingest_prices(table, ticker, prices) ==
    IF DOMAIN prices = {}
    THEN table
    ELSE RecomputeReturns(UpsertPrices(table, ticker, prices), ticker)

NoPrices == [k \in {} |-> Null]

InitPrices ==
    /\ tasks = <<>>
    /\ clock = 0
    /\ tracked = {}
    /\ store = {}
    /\ pc = [w \in Workers |-> "idle"]
    /\ snap = [w \in Workers |-> {}]
    /\ locked = [w \in Workers |-> NoRow]
    /\ cur = [w \in Workers |-> NoTask]
    /\ prun = NoRun
    /\ call = NoCall
    /\ db = [table |-> "prices_daily", rows |-> NoPrices]

\* The dates on which the ticker has a bar.
BarDates(table, ticker) == {d \in Dates : <<ticker, d>> \in DOMAIN table}

\* The fetched bars bring a date that lies between two dates the ticker had.
FillsGap(had, fetched) ==
    \E d \in fetched \ had : \E e, f \in had : e < d /\ d < f

\* Step 3 of the pipeline for a ticker, with what the price source returns.
IngestPrices(ticker, prices) ==
    /\ db' = [db EXCEPT !.rows = ingest_prices(@, ticker, prices)]
    /\ call' = [op |-> "ingest_prices", ticker |-> ticker,
                gap_filled |-> FillsGap(BarDates(db.rows, ticker), DOMAIN prices)]
    /\ UNCHANGED <<tasks, clock, tracked, store, workerVars, prun>>

NextPrices == \E t \in PriceTickers : \E prices \in Fetches : IngestPrices(t, prices)

SpecPrices == InitPrices /\ [][NextPrices]_vars

\* C19: every bar of every ticker has return_1d = (close - previous close) /
\* previous close * 100, the previous bar being the one of the same ticker with
\* the greatest earlier date, and the earliest bar of a ticker has NULL.
C19_ReturnsRecomputed ==
    \A t \in PriceTickers : \A d \in BarDates(db.rows, t) :
        LET earlier == {e \in BarDates(db.rows, t) : e < d}
            bar == db.rows[<<t, d>>]
        IN IF earlier = {}
           THEN bar.return_1d.null
           ELSE LET e == CHOOSE x \in earlier : \A y \in earlier : y <= x
                    previous == db.rows[<<t, e>>].close
                IN /\ ~bar.return_1d.null
                   /\ bar.return_1d.num * previous =
                         (bar.close - previous) * 100 * bar.return_1d.den

\* An ingest brought the bar of the second day of a ticker that had bars on
\* the first and the third: closes 100 then 110 give 10.0 on the second day,
\* the return of the third day is taken from the second, the first has NULL,
\* and the other ticker has bars too.
C19_Witness ==
    /\ call.op = "ingest_prices"
    /\ call.ticker = "ZZZ"
    /\ call.gap_filled
    /\ db.rows[<<"ZZZ", 1>>].close = 100
    /\ db.rows[<<"ZZZ", 1>>].return_1d.null
    /\ db.rows[<<"ZZZ", 2>>].close = 110
    /\ db.rows[<<"ZZZ", 2>>].return_1d = Number(1000, 100)
    /\ db.rows[<<"ZZZ", 3>>].close = 100
    /\ db.rows[<<"ZZZ", 3>>].return_1d = Number(-1000, 110)
    /\ BarDates(db.rows, "AAA") # {}

(***************************************************************************)
(* compute_daily_agg (jobs/pipeline.py, lines 178-227).  The scored items  *)
(* (items joined with item_scores) do not change; daily_agg is a function  *)
(* from (ticker, date) to the aggregate of the day.                        *)
(***************************************************************************)
MaxItems == 3

AggTickers == {"AAA", "ZZZ"}

AggDates == {1, 2}

\* sentiment_score (in tenths) and sentiment_label of a scored item
Scores == {<<5, "POSITIVE">>, <<0, "NEUTRAL">>, <<-5, "NEGATIVE">>}

ScoredItems ==
    {[ticker |-> t, date |-> d, score |-> x[1], label |-> x[2]] :
        t \in AggTickers, d \in AggDates, x \in Scores}

\* Lines 185-198: the items of the ticker published on the date.
ItemsOn(items, ticker, date) ==
    {i \in DOMAIN items : items[i].ticker = ticker /\ items[i].date = date}

\* COUNT(*) of the items of I with the label
CountLabel(items, I, label) == Cardinality({i \in I : items[i].label = label})

RECURSIVE SumScores(_, _)
SumScores(items, I) ==
    IF I = {} THEN 0
    ELSE LET i == CHOOSE x \in I : TRUE
         IN items[i].score + SumScores(items, I \ {i})

\* One row of the SELECT, with line 219: float(sentiment_avg) if sentiment_avg
\* else 0.
AggRow(items, I) ==
    [sentiment_avg |-> IF SumScores(items, I) = 0
                       THEN Number(0, 1)
                       ELSE Number(SumScores(items, I), Cardinality(I)),
     article_count |-> Cardinality(I),
     positive_count |-> CountLabel(items, I, "POSITIVE"),
     neutral_count |-> CountLabel(items, I, "NEUTRAL"),
     negative_count |-> CountLabel(items, I, "NEGATIVE")]

\* The SELECT: one row per day since the cutoff on which the ticker has items.
AggRows(items, ticker, cutoff) ==
    [d \in {e \in {items[i].date : i \in DOMAIN items} :
                e >= cutoff /\ ItemsOn(items, ticker, e) # {}} |->
        AggRow(items, ItemsOn(items, ticker, d))]

\* ON CONFLICT (ticker, date) DO UPDATE SET article_count =
\* daily_agg.article_count + EXCLUDED.article_count, the rest as below.
UpsertAggAdding(table, ticker, rows) ==
    [k \in DOMAIN table \cup {<<ticker, d>> : d \in DOMAIN rows} |->
        IF k[1] = ticker /\ k[2] \in DOMAIN rows
        THEN IF k \in DOMAIN table
             THEN [rows[k[2]] EXCEPT !.article_count = @ + table[k].article_count]
             ELSE rows[k[2]]
        ELSE table[k]]

\* Lines 205-225: INSERT ... ON CONFLICT (ticker, date) DO UPDATE SET every
\* aggregate column = EXCLUDED's.
UpsertAgg(table, ticker, rows) ==
    [k \in DOMAIN table \cup {<<ticker, d>> : d \in DOMAIN rows} |->
        IF k[1] = ticker /\ k[2] \in DOMAIN rows THEN rows[k[2]] ELSE table[k]]

compute_daily_agg(table, items, ticker, cutoff) ==
    UpsertAgg(table, ticker, AggRows(items, ticker, cutoff))

InitAgg ==
    /\ tasks = <<>>
    /\ clock = 0
    /\ tracked = {}
    /\ store = {}
    /\ pc = [w \in Workers |-> "idle"]
    /\ snap = [w \in Workers |-> {}]
    /\ locked = [w \in Workers |-> NoRow]
    /\ cur = [w \in Workers |-> NoTask]
    /\ prun = NoRun
    /\ call = NoCall
    /\ \E n \in 0..MaxItems : \E items \in [1..n -> ScoredItems] :
          db = [table |-> "daily_agg", items |-> items, rows |-> NoPrices]

\* Step 4 of the pipeline for a ticker; cutoff is date.today() - days, which
\* for a fixed days never moves back from one run to the next.
ComputeDailyAgg(ticker, cutoff) ==
    /\ db' = [db EXCEPT !.rows = compute_daily_agg(@, db.items, ticker, cutoff)]
    /\ call' = [op |-> "compute_daily_agg", ticker |-> ticker, cutoff |-> cutoff,
                again |-> /\ call.op = "compute_daily_agg"
                          /\ call.ticker = ticker
                          /\ call.cutoff <= cutoff,
                changed |-> db'.rows # db.rows]
    /\ UNCHANGED <<tasks, clock, tracked, store, workerVars, prun>>

NextAgg == \E t \in AggTickers : \E cutoff \in AggDates : ComputeDailyAgg(t, cutoff)

SpecAgg == InitAgg /\ [][NextAgg]_vars

\* C20: a run of compute_daily_agg that follows a run for the same ticker, the
\* scored items being the same, leaves daily_agg as the first run left it:
\* the same (ticker, date) rows with the same average and counts.
C20_DailyAggIdempotent ==
    (call.op = "compute_daily_agg" /\ call.again) => ~call.changed

\* The second of two runs for a ticker that has a day with two articles, one
\* positive and one negative, has left the table with that row as it was.
C20_Witness ==
    /\ call.op = "compute_daily_agg"
    /\ call.again
    /\ ~call.changed
    /\ <<"ZZZ", 2>> \in DOMAIN db.rows
    /\ db.rows[<<"ZZZ", 2>>].article_count = 2
    /\ db.rows[<<"ZZZ", 2>>].positive_count = 1
    /\ db.rows[<<"ZZZ", 2>>].negative_count = 1

(***************************************************************************)
(* compute_metrics_windowed (jobs/pipeline.py, lines 230-301).             *)
(* metrics_windowed is a function from (ticker, date_end, window_days) to  *)
(* the metrics of the window.  sentiment_avg is held in tenths and         *)
(* return_1d in percent, both as fractions; _compute_window_metrics gets   *)
(* them as floats, here in thousandths.                                    *)
(***************************************************************************)
RECURSIVE SortedDates(_)
SortedDates(S) ==
    IF S = {} THEN <<>>
    ELSE LET d == CHOOSE x \in S : \A y \in S : x <= y
         IN <<d>> \o SortedDates(S \ {d})

\* The dates of the rows a table with key (ticker, date) has for the ticker.
TickerDates(table, ticker) == {k[2] : k \in {x \in DOMAIN table : x[1] = ticker}}

\* Lines 238-243: SELECT date, sentiment_avg FROM daily_agg WHERE ticker = %s
\* AND date >= %s, as the dict of line 257.
SelectSentiments(agg, ticker, cutoff) ==
    [d \in {e \in TickerDates(agg, ticker) : e >= cutoff} |->
        agg[<<ticker, d>>].sentiment_avg]

\* Lines 246-251: SELECT date, return_1d FROM prices_daily WHERE ticker = %s
\* AND return_1d IS NOT NULL AND date >= %s, as the dict of line 258.
SelectReturns(prices, ticker, cutoff) ==
    [d \in {e \in TickerDates(prices, ticker) :
                e >= cutoff /\ ~prices[<<ticker, e>>].return_1d.null} |->
        prices[<<ticker, d>>].return_1d]

\* np.array(..., dtype=float) of a fraction counted in 1/per: the nearest
\* thousandth.
Thousandths(x, per) == (2 * x.num * (1000 \div per) + x.den) \div (2 * x.den)

\* Line 261
CommonDates(sentiment_by_date, return_by_date) ==
    SortedDates(DOMAIN sentiment_by_date \cap DOMAIN return_by_date)

\* The first window whatever i: common_dates[:window_days].
WindowDatesFirst(common_dates, window_days, i) ==
    SubSeq(common_dates, 1, window_days)

\* Line 268: common_dates[i - window_days + 1 : i + 1], for the i-th aligned
\* date counted from 1.
WindowDates(common_dates, window_days, i) ==
    SubSeq(common_dates, i - window_days + 1, i)

\* Lines 253-275: the windows of the loop, in its order, each with the
\* arguments of the call of _compute_window_metrics.
Windows(sentiment_by_date, return_by_date, window_days) ==
    LET common_dates == CommonDates(sentiment_by_date, return_by_date) IN
    IF DOMAIN sentiment_by_date = {} \/ DOMAIN return_by_date = {}
    THEN <<>>
    ELSE IF Len(common_dates) < window_days
    THEN <<>>
    ELSE [j \in 1..(Len(common_dates) - window_days + 1) |->
            LET window_dates ==
                    WindowDates(common_dates, window_days, j + window_days - 1)
            IN [date_end |-> window_dates[Len(window_dates)],
                sentiments |-> [k \in 1..Len(window_dates) |->
                    Thousandths(sentiment_by_date[window_dates[k]], 10)],
                returns |-> [k \in 1..Len(window_dates) |->
                    Thousandths(return_by_date[window_dates[k]], 1)]]]

\* Lines 278-298: INSERT ... ON CONFLICT (ticker, date_end, window_days) DO
\* UPDATE SET every metric = EXCLUDED's.
UpsertMetrics(table, ticker, window_days, date_end, metrics) ==
    [k \in DOMAIN table \cup {<<ticker, date_end, window_days>>} |->
        IF k = <<ticker, date_end, window_days>> THEN metrics ELSE table[k]]

\* One iteration of the loop of lines 267-299.
UpsertWindow(table, ticker, window_days, window) ==
    UpsertMetrics(table, ticker, window_days, window.date_end,
                  compute_window_metrics(window.sentiments, window.returns))

RECURSIVE UpsertWindows(_, _, _, _, _)
UpsertWindows(table, ticker, window_days, windows, i) ==
    IF i > Len(windows) THEN table
    ELSE UpsertWindows(UpsertWindow(table, ticker, window_days, windows[i]),
                       ticker, window_days, windows, i + 1)

compute_metrics_windowed(table, agg, prices, ticker, window_days, cutoff) ==
    UpsertWindows(table, ticker, window_days,
                  Windows(SelectSentiments(agg, ticker, cutoff),
                          SelectReturns(prices, ticker, cutoff), window_days), 1)

(***************************************************************************)
(* Two executions of run_pipeline_for_ticker for one ticker that overlap.  *)
(* Each statement of the three data steps (one execute or fetch_all,       *)
(* committed on its own) is one action of a run; the price source and the  *)
(* scored items give both runs the same data.                              *)
(***************************************************************************)
OverlapRuns == {"a", "b"}

OverlapTicker == "ZZZ"

OverlapWindows == {1, 2}

\* The three tables without rows.
NoTables == [prices |-> NoPrices, agg |-> NoPrices, metrics |-> NoPrices]

\* Lines 67-86 of run_pipeline_for_ticker: steps 3, 4 and 5, one after the
\* other.
DataSteps(tables, ticker, prices, items, kwargs) ==
    LET p == ingest_prices(tables.prices, ticker, prices)
        a == compute_daily_agg(tables.agg, items, ticker, kwargs.agg_cutoff)
    IN [prices |-> p, agg |-> a,
        metrics |-> compute_metrics_windowed(tables.metrics, a, p, ticker,
                                             kwargs.window_days,
                                             kwargs.metrics_cutoff)]

\* Scored items of the ticker: at most one a day, positive on odd days.
OverlapItems ==
    {[k \in 1..Len(SortedDates(D)) |->
        [ticker |-> OverlapTicker, date |-> SortedDates(D)[k],
         score |-> IF SortedDates(D)[k] % 2 = 1 THEN 5 ELSE -5,
         label |-> IF SortedDates(D)[k] % 2 = 1 THEN "POSITIVE" ELSE "NEGATIVE"]] :
     D \in SUBSET Dates}

\* What an earlier run found at the price source: nothing, or a bar at 100 on
\* every day.
EarlierFetches ==
    {p \in Fetches : DOMAIN p \in {{}, Dates} /\ \A d \in DOMAIN p : p[d] = 100}

\* A run that has not started its data steps.
RunAt(at) == [pc |-> at, i |-> 1, rows |-> <<>>, sentiments |-> <<>>]

\* Line 139: nothing fetched, nothing written.
AfterFetch(prices) == IF DOMAIN prices = {} THEN "agg_select" ELSE "prices"

InitOverlap ==
    /\ tasks = <<>>
    /\ clock = 0
    /\ tracked = {}
    /\ store = {}
    /\ pc = [w \in Workers |-> "idle"]
    /\ snap = [w \in Workers |-> {}]
    /\ locked = [w \in Workers |-> NoRow]
    /\ cur = [w \in Workers |-> NoTask]
    /\ \E window_days \in OverlapWindows : \E cutoff \in {1, 2} :
          call = [op |-> "overlap", window_days |-> window_days,
                  agg_cutoff |-> 1, metrics_cutoff |-> cutoff]
    /\ \E fetched \in Fetches : \E items \in OverlapItems :
       \E earlier \in EarlierFetches :
          LET before == IF DOMAIN earlier = {} THEN NoTables
                        ELSE DataSteps(NoTables, OverlapTicker, earlier, items, call)
          IN /\ db = [table |-> "overlap", fetched |-> fetched, items |-> items,
                      before |-> before, prices |-> before.prices,
                      agg |-> before.agg, metrics |-> before.metrics]
             /\ prun = [r \in OverlapRuns |-> RunAt(AfterFetch(fetched))]

\* Lines 144-156, one iteration: the upsert of the i-th fetched bar.
OverlapUpsertPrice(r) ==
    LET order == SortedDates(DOMAIN db.fetched)
        d == order[prun[r].i]
    IN /\ prun[r].pc = "prices"
       /\ db' = [db EXCEPT !.prices =
                    UpsertPrices(@, OverlapTicker, [e \in {d} |-> db.fetched[e]])]
       /\ prun' = [prun EXCEPT ![r] =
                    IF prun[r].i = Len(order) THEN RunAt("returns")
                    ELSE [@ EXCEPT !.i = @ + 1]]
       /\ UNCHANGED <<tasks, clock, tracked, store, workerVars, call>>

\* Lines 159-173: the UPDATE of return_1d.
OverlapRecompute(r) ==
    /\ prun[r].pc = "returns"
    /\ db' = [db EXCEPT !.prices = RecomputeReturns(@, OverlapTicker)]
    /\ prun' = [prun EXCEPT ![r] = RunAt("agg_select")]
    /\ UNCHANGED <<tasks, clock, tracked, store, workerVars, call>>

\* Lines 185-201: the SELECT of compute_daily_agg.
OverlapAggSelect(r) ==
    LET rows == AggRows(db.items, OverlapTicker, call.agg_cutoff) IN
    /\ prun[r].pc = "agg_select"
    /\ prun' = [prun EXCEPT ![r] =
                  IF DOMAIN rows = {} THEN RunAt("metrics_sentiments")
                  ELSE [RunAt("agg_upsert") EXCEPT !.rows = rows]]
    /\ UNCHANGED <<tasks, clock, tracked, store, workerVars, dataVars>>

\* Lines 205-225, one iteration: the upsert of the i-th selected day.
OverlapAggUpsert(r) ==
    LET order == SortedDates(DOMAIN prun[r].rows)
        d == order[prun[r].i]
    IN /\ prun[r].pc = "agg_upsert"
       /\ db' = [db EXCEPT !.agg =
                    UpsertAgg(@, OverlapTicker, [e \in {d} |-> prun[r].rows[e]])]
       /\ prun' = [prun EXCEPT ![r] =
                    IF prun[r].i = Len(order) THEN RunAt("metrics_sentiments")
                    ELSE [@ EXCEPT !.i = @ + 1]]
       /\ UNCHANGED <<tasks, clock, tracked, store, workerVars, call>>

\* Lines 238-243: the SELECT on daily_agg.
OverlapSelectSentiments(r) ==
    /\ prun[r].pc = "metrics_sentiments"
    /\ prun' = [prun EXCEPT ![r] =
                  [RunAt("metrics_prices") EXCEPT !.sentiments =
                      SelectSentiments(db.agg, OverlapTicker, call.metrics_cutoff)]]
    /\ UNCHANGED <<tasks, clock, tracked, store, workerVars, dataVars>>

\* Lines 246-264: the SELECT on prices_daily and the windows it gives.
OverlapSelectPrices(r) ==
    LET windows == Windows(prun[r].sentiments,
                           SelectReturns(db.prices, OverlapTicker,
                                         call.metrics_cutoff),
                           call.window_days)
    IN /\ prun[r].pc = "metrics_prices"
       /\ prun' = [prun EXCEPT ![r] =
                     IF Len(windows) = 0 THEN RunAt("done")
                     ELSE [RunAt("metrics_upsert") EXCEPT !.rows = windows]]
       /\ UNCHANGED <<tasks, clock, tracked, store, workerVars, dataVars>>

\* Lines 267-299, one iteration: the metrics of the i-th window and its upsert.
OverlapUpsertWindow(r) ==
    /\ prun[r].pc = "metrics_upsert"
    /\ db' = [db EXCEPT !.metrics =
                 UpsertWindow(@, OverlapTicker, call.window_days,
                              prun[r].rows[prun[r].i])]
    /\ prun' = [prun EXCEPT ![r] =
                  IF prun[r].i = Len(prun[r].rows) THEN RunAt("done")
                  ELSE [@ EXCEPT !.i = @ + 1]]
    /\ UNCHANGED <<tasks, clock, tracked, store, workerVars, call>>

NextOverlap ==
    \E r \in OverlapRuns :
        \/ OverlapUpsertPrice(r)
        \/ OverlapRecompute(r)
        \/ OverlapAggSelect(r)
        \/ OverlapAggUpsert(r)
        \/ OverlapSelectSentiments(r)
        \/ OverlapSelectPrices(r)
        \/ OverlapUpsertWindow(r)

SpecOverlap == InitOverlap /\ [][NextOverlap]_vars

\* Both runs have returned from their last data step.
OverlapOver == \A r \in OverlapRuns : prun[r].pc = "done"

\* What one run alone leaves of the tables the two runs started from.
OneRun == DataSteps(db.before, OverlapTicker, db.fetched, db.items, call)

\* C21: when two runs of the pipeline for one ticker have overlapped, in
\* whatever order their statements were executed, prices_daily (closes and
\* return_1d), daily_agg and metrics_windowed hold what a single run leaves:
\* the same keys, one row each, with the same values.
C21_OverlapAsOneRun ==
    OverlapOver =>
        /\ db.prices = OneRun.prices
        /\ db.agg = OneRun.agg
        /\ db.metrics = OneRun.metrics

\* Two runs are over that fetched bars for three days on top of an earlier
\* bar, upserted two aggregates and wrote a two-day window.
C21_Witness ==
    /\ OverlapOver
    /\ DOMAIN db.fetched = Dates
    /\ db.before.prices # NoPrices
    /\ db.prices # db.before.prices
    /\ Cardinality(DOMAIN db.agg) >= 2
    /\ call.window_days = 2
    /\ DOMAIN db.metrics # {}
    /\ db.metrics # db.before.metrics

(***************************************************************************)
(* The correlation of a window (SpecMetrics).                              *)
(***************************************************************************)
\* Every value of the series is the same.
Constant(v) == \A i, j \in 1..Len(v) : v[i] = v[j]

\* The standard deviation of the series, in thousandths, is below 1: the mean
\* of the squares minus the square of the mean is below 1.
StdBelowThousandth(v) ==
    Len(v) * SumTo([i \in 1..Len(v) |-> v[i] * v[i]], Len(v))
        - SumTo(v, Len(v)) * SumTo(v, Len(v)) < Len(v) * Len(v)

\* C22: the corr of a result is a number between -1 and 1, never NaN, and it
\* is 0.0 whenever the sentiments or the returns of the window are constant
\* or have a standard deviation below 0.001.
C22_CorrGuarded ==
    MetricsDone =>
        /\ call.metrics.corr \in (-Units)..Units
        /\ (\/ Constant(call.sentiments) \/ Constant(call.returns)
            \/ StdBelowThousandth(call.sentiments)
            \/ StdBelowThousandth(call.returns)) => call.metrics.corr = 0

\* A window whose sentiments 0, 0, 0.001 are not constant but have a standard
\* deviation below 0.001, with returns that vary: corr is 0.
C22_Witness ==
    /\ MetricsDone
    /\ call.sentiments = <<0, 0, 1>>
    /\ call.returns = <<-40, 0, 70>>
    /\ ~Constant(call.sentiments)
    /\ call.metrics.corr = 0

(***************************************************************************)
(* One worker against a table of PENDING rows of every task type, some of  *)
(* them put back to PENDING by hand after earlier attempts (the comment at *)
(* line 330 of worker.py), so that a claim can bring attempts to           *)
(* MAX_ATTEMPTS.                                                           *)
(***************************************************************************)
MaxRetryTasks == 2

\* The four task types of run_once and one it does not know.
RetryTypes ==
    {"DAILY_UPDATE_ALL", "REFRESH_STOCK", "BACKFILL_STOCK", "BACKFILL_DEFAULTS",
     "CLEANUP"}

RetryRows ==
    {[Row(ty, t, RefreshPriority, EmptyDict, 1) EXCEPT !.attempts = a] :
        ty \in RetryTypes, t \in {None, "ZZZ"}, a \in 0..(MAX_ATTEMPTS - 1)}

InitRetry ==
    /\ tasks \in UNION {[1..n -> RetryRows] : n \in 1..MaxRetryTasks}
    /\ clock = 1
    /\ tracked = {"ZZZ"}
    /\ store = {}
    /\ pc = [w \in Workers |-> "idle"]
    /\ snap = [w \in Workers |-> {}]
    /\ locked = [w \in Workers |-> NoRow]
    /\ cur = [w \in Workers |-> NoTask]
    /\ prun = NoRun
    /\ call = NoCall
    /\ db = NoData

NextRetry ==
    \/ ClaimSnapshot(TheWorker)
    \/ ClaimLock(TheWorker)
    \/ ClaimUpdate(TheWorker)
    \/ \E faults \in [HandlerTickers -> HandlerFaults] : RunTask(TheWorker, faults)
    \/ Wake(TheWorker)

SpecRetry == InitRetry /\ [][NextRetry]_vars

\* The worker is in the try block of run_once and the handler of its task
\* raises (no fault of a pipeline step makes a handler raise or return).
HandlerRaises(w) ==
    /\ pc[w] = "running"
    /\ Dispatch(cur[w], store, tracked, EmptyDict).raised

\* C23: when the handler of a claimed task raises (the pipeline call fails, a
\* per-ticker task has no ticker, the task type is unknown), run_once leaves
\* the row in status ERROR with the failure as its error, whether attempts is
\* below MAX_ATTEMPTS or has reached it; and a row in status ERROR stays so:
\* it does not go back to PENDING and does not become DONE.
C23_RaisedEndsError ==
    [][/\ \A w \in Workers :
             (HandlerRaises(w) /\ pc'[w] = "idle") =>
                 /\ tasks'[cur[w].id].status = "ERROR"
                 /\ TruthyError(tasks'[cur[w].id].error)
                 /\ tasks'[cur[w].id].error.msg =
                        Dispatch(cur[w], store, tracked, EmptyDict).exc.msg
       /\ \A i \in Ids : tasks[i].status = "ERROR" => tasks'[i].status = "ERROR"]_vars

\* A task of an unknown type failed on its third attempt and a refresh
\* without ticker on its first: both rows are ERROR, the first with the bare
\* message, the second with the attempt in front.
C23_Witness ==
    /\ Len(tasks) = 2
    /\ tasks[1].task_type = "CLEANUP"
    /\ tasks[1].status = "ERROR"
    /\ tasks[1].attempts = MAX_ATTEMPTS
    /\ tasks[1].error = UnknownTypeError
    /\ tasks[2].task_type = "REFRESH_STOCK"
    /\ tasks[2].status = "ERROR"
    /\ tasks[2].attempts = 1
    /\ tasks[2].error = AttemptPrefix(1, NoTickerError)

(***************************************************************************)
(* Workers that can be stopped while a handler runs (the process is        *)
(* killed, or KeyboardInterrupt passes the `except Exception` of run_once  *)
(* and ends run_loop at line 351) and started again.                       *)
(***************************************************************************)
\* The worker stops in the middle of the handler: the handler's writes up to
\* that point stay, complete_task is not called.
Kill(w) ==
    /\ pc[w] = "running"
    /\ \E faults \in [QueueTickers -> QueueFaults] :
          store' = Dispatch(cur[w], store, tracked, faults).store
    /\ cur' = [cur EXCEPT ![w] = NoTask]
    /\ pc' = [pc EXCEPT ![w] = "stopped"]
    /\ UNCHANGED <<tasks, clock, tracked, snap, locked, pipeVars>>

\* python worker.py: a new process enters run_loop.
Restart(w) ==
    /\ pc[w] = "stopped"
    /\ pc' = [pc EXCEPT ![w] = "idle"]
    /\ UNCHANGED <<tasks, clock, tracked, store, snap, locked, cur, pipeVars>>

NextKill ==
    \/ \E t \in QueueTickers : HasRoom /\ AddStock(t)
    \/ \E t \in QueueTickers : HasRoom /\ RefreshStock(t)
    \/ \E w \in Workers : ClaimSnapshot(w)
    \/ \E w \in Workers : ClaimLock(w)
    \/ \E w \in Workers : ClaimUpdate(w)
    \/ \E w \in Workers : \E faults \in [QueueTickers -> QueueFaults] : RunTask(w, faults)
    \/ \E w \in Workers : Wake(w)
    \/ \E w \in Workers : Kill(w)
    \/ \E w \in Workers : Restart(w)

SpecKill == Init /\ [][NextKill]_vars

\* The row is RUNNING and no worker is in its handler.
Orphaned(i) ==
    /\ tasks[i].status = "RUNNING"
    /\ \A w \in Workers : cur[w].id # i

\* C24: a row whose worker was stopped in the middle of the handler stays as
\* it is, in status RUNNING: no step of any worker changes it, no claim
\* returns it, and no step takes a RUNNING row back to PENDING.
C24_OrphanStaysRunning ==
    [][\A i \in Ids :
          /\ Orphaned(i) =>
                /\ tasks'[i] = tasks[i]
                /\ \A w \in Workers : cur'[w].id # i /\ locked'[w] # i
          /\ tasks[i].status = "RUNNING" => tasks'[i].status # "PENDING"]_vars

\* The worker of the first task was stopped in its handler; since then a
\* worker has finished the second task and a poll has found nothing to
\* claim, and no worker is stopped any more.
C24_Witness ==
    /\ Len(tasks) = 2
    /\ Orphaned(1)
    /\ tasks[1].attempts = 1
    /\ Finished(2)
    /\ \E w \in Workers : pc[w] = "sleeping"
    /\ \A w \in Workers : pc[w] # "stopped"

(***************************************************************************)
(* The parameters a handler passes to run_pipeline_for_ticker, for every   *)
(* payload that holds some of the six parameters.                          *)
(***************************************************************************)
TunedKeys == DOMAIN REFRESH_PARAMS

\* Values a producer can store for a parameter, 0 among them.
TunedValues == {0, 5}

TunedPayloads == UNION {[K -> TunedValues] : K \in SUBSET TunedKeys}

InitParams ==
    /\ tasks = <<>>
    /\ clock = 0
    /\ tracked = HandlerTickers
    /\ store = {}
    /\ pc = [w \in Workers |-> "idle"]
    /\ snap = [w \in Workers |-> {}]
    /\ locked = [w \in Workers |-> NoRow]
    /\ cur = [w \in Workers |-> NoTask]
    /\ prun = NoRun
    /\ \E ty \in {"REFRESH_STOCK", "DAILY_UPDATE_ALL"} : \E payload \in TunedPayloads :
          call = [op |-> "task", task_type |-> ty, payload |-> payload,
                  kwargs |-> EmptyDict]
    /\ db = NoData

\* handle_refresh_stock, lines 189-201: the call for the task's ticker.
RefreshCall(t) ==
    /\ call.op = "task"
    /\ call.task_type = "REFRESH_STOCK"
    /\ call' = [call EXCEPT !.op = "pipeline_call",
                            !.kwargs = RefreshKwargs(t, Merge(REFRESH_PARAMS, call.payload))]
    /\ UNCHANGED <<tasks, clock, tracked, store, workerVars, prun, db>>

\* handle_daily_update_all, lines 141-156: the call for one active ticker.
DailyCall(t) ==
    /\ call.op = "task"
    /\ call.task_type = "DAILY_UPDATE_ALL"
    /\ t \in tracked
    /\ call' = [call EXCEPT !.op = "pipeline_call",
                            !.kwargs = DailyKwargs(t, Merge(DAILY_PARAMS, call.payload))]
    /\ UNCHANGED <<tasks, clock, tracked, store, workerVars, prun, db>>

NextParams ==
    \/ \E t \in HandlerTickers : RefreshCall(t)
    \/ \E t \in HandlerTickers : DailyCall(t)

SpecParams == InitParams /\ [][NextParams]_vars

\* C25: each of the six parameters of the pipeline call of a REFRESH_STOCK or
\* DAILY_UPDATE_ALL task is the payload's value for the key when the payload
\* has it, and else the default of the type: 48/50/180/30/30/7 for
\* REFRESH_STOCK, 48/200/180/90/90/7 for DAILY_UPDATE_ALL.
C25_ParamsFromPayload ==
    LET defaults ==
            IF call.task_type = "REFRESH_STOCK"
            THEN [news_hours |-> 48, score_limit |-> 50, prices_days |-> 180,
                  agg_days |-> 30, metrics_days |-> 30, window_days |-> 7]
            ELSE [news_hours |-> 48, score_limit |-> 200, prices_days |-> 180,
                  agg_days |-> 90, metrics_days |-> 90, window_days |-> 7]
    IN call.op = "pipeline_call" =>
          \A k \in {"news_hours", "score_limit", "prices_days", "agg_days",
                    "metrics_days", "window_days"} :
              call.kwargs[k] = IF k \in DOMAIN call.payload
                               THEN call.payload[k]
                               ELSE defaults[k]

\* A refresh whose payload sets score_limit to 0 and window_days to 5 and
\* nothing else: the call gets 0 and 5 and the defaults for the rest.
C25_Witness ==
    /\ call.op = "pipeline_call"
    /\ call.task_type = "REFRESH_STOCK"
    /\ DOMAIN call.payload = {"score_limit", "window_days"}
    /\ call.kwargs.score_limit = 0
    /\ call.kwargs.window_days = 5
    /\ call.kwargs.news_hours = 48
    /\ call.kwargs.agg_days = 30

(***************************************************************************)
(* compute_metrics_windowed over every daily_agg and prices_daily the      *)
(* bounds allow for a ticker, with metrics_windowed empty or holding rows  *)
(* of an earlier computation.                                              *)
(***************************************************************************)
WindowedTicker == "ZZZ"

\* sentiment_avg of a day: 0.5 or -0.5
WindowedSentiments == {Number(5, 1), Number(-5, 1)}

\* return_1d of a bar: NULL (the first bar, or a zero close before) or 10 %
WindowedReturns == {Null, Number(1000, 100)}

WindowSizes == 1..MaxWindow

\* A table with a row for the ticker on each date of D.
DayTable(D, row) == [k \in {<<WindowedTicker, d>> : d \in D} |-> row[k[2]]]

\* The row an earlier computation left under every key, from other inputs.
EarlierMetrics ==
    [k \in {<<WindowedTicker, d, w>> : d \in Dates, w \in WindowSizes} |->
        compute_window_metrics(<<0>>, <<0>>)]

InitWindowed ==
    /\ tasks = <<>>
    /\ clock = 0
    /\ tracked = {}
    /\ store = {}
    /\ pc = [w \in Workers |-> "idle"]
    /\ snap = [w \in Workers |-> {}]
    /\ locked = [w \in Workers |-> NoRow]
    /\ cur = [w \in Workers |-> NoTask]
    /\ prun = NoRun
    /\ call = NoCall
    /\ \E A \in SUBSET Dates : \E s \in [A -> WindowedSentiments] :
       \E B \in SUBSET Dates : \E r \in [B -> WindowedReturns] :
       \E metrics \in {NoPrices, EarlierMetrics} :
          db = [table |-> "metrics_windowed",
                agg |-> DayTable(A, [d \in A |-> [sentiment_avg |-> s[d]]]),
                prices |-> DayTable(B, [d \in B |-> [close |-> 100, return_1d |-> r[d]]]),
                metrics |-> metrics]

\* Step 5 of the pipeline for the ticker; cutoff is date.today() - days.
ComputeMetricsWindowed(window_days, cutoff) ==
    /\ db' = [db EXCEPT !.metrics =
                 compute_metrics_windowed(@, db.agg, db.prices, WindowedTicker,
                                          window_days, cutoff)]
    /\ call' = [op |-> "compute_metrics_windowed", window_days |-> window_days,
                cutoff |-> cutoff, before |-> db.metrics,
                count |-> Len(Windows(SelectSentiments(db.agg, WindowedTicker, cutoff),
                                      SelectReturns(db.prices, WindowedTicker, cutoff),
                                      window_days))]
    /\ UNCHANGED <<tasks, clock, tracked, store, workerVars, prun>>

NextWindowed ==
    \E window_days \in WindowSizes : \E cutoff \in Dates :
        ComputeMetricsWindowed(window_days, cutoff)

SpecWindowed == InitWindowed /\ [][NextWindowed]_vars

\* The dates since the cutoff with a sentiment aggregate and a return.
Aligned(cutoff) ==
    {d \in Dates :
        /\ d >= cutoff
        /\ <<WindowedTicker, d>> \in DOMAIN db.agg
        /\ <<WindowedTicker, d>> \in DOMAIN db.prices
        /\ ~db.prices[<<WindowedTicker, d>>].return_1d.null}

\* The aligned dates up to d, d included.
UpTo(cutoff, d) == {e \in Aligned(cutoff) : e <= d}

\* The W most recent aligned dates ending at d, oldest first.
Recent(cutoff, d, W) ==
    SortedDates({e \in UpTo(cutoff, d) :
                    Cardinality({f \in UpTo(cutoff, d) : f >= e}) <= W})

\* The metrics of the sentiments and returns of the W dates ending at d.
RecentMetrics(cutoff, d, W) ==
    LET on == Recent(cutoff, d, W) IN
    compute_window_metrics(
        [k \in 1..Len(on) |->
            Thousandths(db.agg[<<WindowedTicker, on[k]>>].sentiment_avg, 10)],
        [k \in 1..Len(on) |->
            Thousandths(db.prices[<<WindowedTicker, on[k]>>].return_1d, 1)])

\* C26: with n aligned dates since the cutoff (dates with a sentiment
\* aggregate and a non-NULL return_1d), compute_metrics_windowed upserts
\* max(0, n - window_days + 1) rows: none when n < window_days, else one for
\* each date_end that is the k-th aligned date, k >= window_days, holding the
\* metrics of the window_days most recent aligned dates ending at date_end.
\* The row of a key overwrites the one the table had; the other rows stay,
\* and no key gets a second row.
C26_WindowRows ==
    call.op = "compute_metrics_windowed" =>
        LET W == call.window_days
            n == Cardinality(Aligned(call.cutoff))
            ends == {d \in Aligned(call.cutoff) :
                        Cardinality(UpTo(call.cutoff, d)) >= W}
            keys == {<<WindowedTicker, d, W>> : d \in ends}
        IN /\ call.count = IF n < W THEN 0 ELSE n - W + 1
           /\ Cardinality(keys) = call.count
           /\ DOMAIN db.metrics = DOMAIN call.before \cup keys
           /\ \A k \in DOMAIN db.metrics :
                 db.metrics[k] = IF k \in keys
                                 THEN RecentMetrics(call.cutoff, k[2], W)
                                 ELSE call.before[k]

\* Aligned dates 1, 2 and 3 and a window of two days: two rows, for date_end 2
\* and 3, have replaced the rows the table held for them, and the row of
\* date_end 1 is the one it held.
C26_Witness ==
    /\ call.op = "compute_metrics_windowed"
    /\ call.window_days = 2
    /\ Aligned(call.cutoff) = Dates
    /\ call.count = 2
    /\ call.before = EarlierMetrics
    /\ db.metrics[<<WindowedTicker, 3, 2>>] # call.before[<<WindowedTicker, 3, 2>>]
    /\ db.metrics[<<WindowedTicker, 1, 2>>] = call.before[<<WindowedTicker, 1, 2>>]

(***************************************************************************)
(* ingest_news_to_db (jobs/ingest_to_db.py, lines 13-93).  items is the    *)
(* set of its (source, url) keys, unique by the ON CONFLICT target; the    *)
(* fetched articles come in the order get_news_data returns them.          *)
(***************************************************************************)
MaxArticles == 2

NewsSources == {"reuters", "yahoo"}

NewsUrls == {"u1", "u2"}

Articles == [source : NewsSources, url : NewsUrls]

\* What get_news_data returns.
NewsFetches == UNION {[1..n -> Articles] : n \in 0..MaxArticles}

\* Lines 46-49: SELECT id FROM items WHERE url = %s
Existing(items, article) == {k \in items : k[2] = article.url}

\* Lines 43-82, from the i-th article on: [items, inserted, skipped].
RECURSIVE IngestLoop(_, _, _, _, _)
IngestLoop(items, articles, i, inserted, skipped) ==
    IF i > Len(articles)
    THEN [items |-> items, inserted |-> inserted, skipped |-> skipped]
    ELSE IF Existing(items, articles[i]) # {}
    THEN IngestLoop(items, articles, i + 1, inserted, skipped + 1)
    ELSE IngestLoop(items \cup {<<articles[i].source, articles[i].url>>},
                    articles, i + 1, inserted + 1, skipped)

ingest_news_to_db(items, articles) == IngestLoop(items, articles, 1, 0, 0)

InitIngest ==
    /\ tasks = <<>>
    /\ clock = 0
    /\ tracked = {}
    /\ store = {}
    /\ pc = [w \in Workers |-> "idle"]
    /\ snap = [w \in Workers |-> {}]
    /\ locked = [w \in Workers |-> NoRow]
    /\ cur = [w \in Workers |-> NoTask]
    /\ prun = NoRun
    /\ call = NoCall
    /\ db = [table |-> "items", rows |-> {}]

\* Step 1 of the pipeline, with what the news source returns.
IngestNews(articles) ==
    /\ db' = [db EXCEPT !.rows = ingest_news_to_db(@, articles).items]
    /\ call' = [op |-> "ingest_news", articles |-> articles, before |-> db.rows,
                inserted_count |-> ingest_news_to_db(db.rows, articles).inserted,
                skipped_count |-> ingest_news_to_db(db.rows, articles).skipped]
    /\ UNCHANGED <<tasks, clock, tracked, store, workerVars, prun>>

NextIngest == \E articles \in NewsFetches : IngestNews(articles)

SpecIngest == InitIngest /\ [][NextIngest]_vars

\* The (source, url) keys of the fetched articles.
FetchedKeys(articles) ==
    {<<articles[i].source, articles[i].url>> : i \in DOMAIN articles}

\* C27: the ingest skips a fetched article exactly when items has a row with
\* the same (source, url) and inserts it otherwise: after the step every
\* fetched (source, url) has its row, one stored under another source
\* included, and the step has inserted as many rows as there are fetched
\* keys the table did not have.
C27_SkipsOnSourceAndUrl ==
    call.op = "ingest_news" =>
        /\ FetchedKeys(call.articles) \subseteq db.rows
        /\ call.inserted_count = Cardinality(FetchedKeys(call.articles) \ call.before)

(***************************************************************************)
(* handle_daily_update_all (jobs/worker.py, lines 121-169), one iteration  *)
(* of its loop at a time, while bootstrap_watchlist changes tracked_stocks.*)
(* tracked_stocks is a function from ticker to is_active.                  *)
(***************************************************************************)
\* SELECT ticker FROM tracked_stocks (every row)
SelectAll(rows) == DOMAIN rows

\* SELECT ticker FROM tracked_stocks WHERE is_active = true
SelectActive(rows) == {t \in DOMAIN rows : rows[t]}

TrackedTables == UNION {[D -> BOOLEAN] : D \in SUBSET HandlerTickers}

\* The call of lines 148-156 raises instead of returning a summary.
CallRaised == Exc("call raised", 11)

InitDaily ==
    /\ tasks = <<Row("DAILY_UPDATE_ALL", None, BackfillPriority, EmptyDict, 1)>>
    /\ clock = 1
    /\ tracked = {}
    /\ store = {}
    /\ pc = [w \in Workers |-> "idle"]
    /\ snap = [w \in Workers |-> {}]
    /\ locked = [w \in Workers |-> NoRow]
    /\ cur = [w \in Workers |-> NoTask]
    /\ prun = NoRun
    /\ call = NoCall
    /\ \E rows \in TrackedTables : db = [table |-> "tracked_stocks", rows |-> rows]

\* Lines 132-144: the SELECT; with no active ticker the handler returns and
\* run_once completes the task.
DailyStart(w) ==
    LET tickers == ActiveTickers(SelectActive(db.rows)) IN
    /\ pc[w] = "running"
    /\ cur[w].task_type = "DAILY_UPDATE_ALL"
    /\ prun = NoRun
    /\ prun' = [at |-> "daily", tickers |-> tickers, i |-> 1,
                results |-> EmptyDict, log |-> <<>>, started |-> db.rows]
    /\ IF Len(tickers) = 0
       THEN /\ tasks' = RecordOutcome(tasks, cur[w],
                           Returns([tickers_processed |-> 0, results |-> EmptyDict],
                                   store))
            /\ cur' = [cur EXCEPT ![w] = NoTask]
            /\ pc' = [pc EXCEPT ![w] = "idle"]
       ELSE UNCHANGED <<tasks, cur, pc>>
    /\ UNCHANGED <<clock, tracked, store, snap, locked, dataVars>>

\* Lines 145-163, one iteration: the pipeline returns a summary (of a run
\* without fault or with a step that raised), or the call raises.
DailyIterate(w, fault, raises) ==
    LET t == prun.tickers[prun.i]
        r == IF raises
             THEN [raised |-> TRUE, exc |-> CallRaised, summary |-> EmptyDict,
                   store |-> store]
             ELSE run_pipeline_for_ticker(
                      store, DailyKwargs(t, Merge(DAILY_PARAMS, cur[w].payload)),
                      fault)
    IN /\ pc[w] = "running"
       /\ prun # NoRun
       /\ prun.i <= Len(prun.tickers)
       /\ store' = r.store
       /\ prun' = [prun EXCEPT !.i = @ + 1,
                               !.results = Merge(@, [k \in {t} |-> LoopEntry(r)]),
                               !.log = Append(@, t)]
       /\ UNCHANGED <<tasks, clock, tracked, workerVars, dataVars>>

\* Line 169 and run_once, lines 318-320.
DailyFinish(w) ==
    /\ pc[w] = "running"
    /\ prun # NoRun
    /\ prun.i > Len(prun.tickers)
    /\ tasks' = RecordOutcome(tasks, cur[w],
                    Returns([tickers_processed |-> Cardinality(DOMAIN prun.results),
                             results |-> prun.results], store))
    /\ cur' = [cur EXCEPT ![w] = NoTask]
    /\ pc' = [pc EXCEPT ![w] = "idle"]
    /\ UNCHANGED <<clock, tracked, store, snap, locked, pipeVars>>

\* bootstrap_watchlist, line 27: UPDATE tracked_stocks SET is_active = false
DeactivateAll ==
    /\ db' = [db EXCEPT !.rows = [t \in DOMAIN db.rows |-> FALSE]]
    /\ UNCHANGED <<tasks, clock, tracked, store, workerVars, prun, call>>

\* bootstrap_watchlist, lines 31-36: INSERT ... ON CONFLICT (ticker) DO UPDATE
\* SET is_active = true
UpsertActive(t) ==
    /\ db' = [db EXCEPT !.rows = [u \in DOMAIN db.rows \cup {t} |->
                                     IF u = t THEN TRUE ELSE db.rows[u]]]
    /\ UNCHANGED <<tasks, clock, tracked, store, workerVars, prun, call>>

NextDaily ==
    \/ ClaimSnapshot(TheWorker)
    \/ ClaimLock(TheWorker)
    \/ ClaimUpdate(TheWorker)
    \/ DailyStart(TheWorker)
    \/ \E fault \in HandlerFaults : \E raises \in BOOLEAN :
          DailyIterate(TheWorker, fault, raises)
    \/ DailyFinish(TheWorker)
    \/ Wake(TheWorker)
    \/ DeactivateAll
    \/ \E t \in HandlerTickers : UpsertActive(t)

SpecDaily == InitDaily /\ [][NextDaily]_vars

\* The handler has started.
DailyStarted == prun # NoRun

\* The tickers that were active when the handler started, in ascending order.
ActiveAtStart ==
    SelectSeq(TickerOrder,
              LAMBDA t : t \in DOMAIN prun.started /\ prun.started[t])

\* C28: the handler of a claimed DAILY_UPDATE_ALL task calls the pipeline
\* once for each ticker that was active in tracked_stocks when it started, in
\* ascending order of ticker, and for no other ticker, whatever the calls
\* before returned or raised; when it is over the task is DONE with one entry
\* of results per such ticker and tickers_processed their number (0 when
\* there is none); and no step of the handler changes tracked_stocks.
C28_DailyCoversActive ==
    /\ [](DailyStarted =>
            /\ Len(prun.log) <= Len(ActiveAtStart)
            /\ \A k \in 1..Len(prun.log) : prun.log[k] = ActiveAtStart[k]
            /\ tasks[1].status \in {"RUNNING", "DONE"}
            /\ tasks[1].status = "DONE" =>
                  /\ prun.log = ActiveAtStart
                  /\ DOMAIN tasks[1].payload.result.results =
                        {ActiveAtStart[k] : k \in 1..Len(ActiveAtStart)}
                  /\ tasks[1].payload.result.tickers_processed = Len(ActiveAtStart))
    /\ [][(prun' # prun \/ tasks' # tasks) => db' = db]_vars

\* The task is DONE after both tickers were processed, AAA first: the call
\* for AAA raised, a step of the run for ZZZ failed, and meanwhile
\* tracked_stocks has lost its active rows.
C28_Witness ==
    /\ DailyStarted
    /\ tasks[1].status = "DONE"
    /\ prun.log = <<"AAA", "ZZZ">>
    /\ tasks[1].payload.result.tickers_processed = 2
    /\ "error" \in DOMAIN tasks[1].payload.result.results["AAA"]
    /\ ~tasks[1].payload.result.results["ZZZ"].success
    /\ SelectActive(db.rows) = {}

(***************************************************************************)
(* Attempts of a row over its lifetime (Spec).                             *)
(***************************************************************************)
\* C29: whatever the workers and the producers do, a row is claimed at most
\* once: its attempts is 0 while it is PENDING and 1 from its claim on, and a
\* worker never holds a task whose attempts has reached MAX_ATTEMPTS, so the
\* `attempts >= MAX_ATTEMPTS` branch of run_once is not taken.
C29_ClaimedAtMostOnce ==
    /\ \A i \in Ids :
          /\ tasks[i].attempts <= 1
          /\ tasks[i].attempts = 0 <=> tasks[i].status = "PENDING"
    /\ \A w \in Workers : pc[w] = "running" => cur[w].attempts < MAX_ATTEMPTS

\* Three rows: one DONE and one ERROR after one attempt each, and one RUNNING
\* in its first attempt while the other worker is between two polls.
C29_Witness ==
    /\ Len(tasks) = 3
    /\ \E i, j, k \in Ids :
          /\ tasks[i].status = "DONE" /\ tasks[i].attempts = 1
          /\ tasks[j].status = "ERROR" /\ tasks[j].attempts = 1
          /\ tasks[k].status = "RUNNING" /\ tasks[k].attempts = 1
    /\ \E w \in Workers : pc[w] = "running" /\ cur[w].attempts = 1
    /\ \E w \in Workers : pc[w] = "sleeping"

(***************************************************************************)
(* run_loop under fair scheduling.  Every statement and every handler that *)
(* a worker has started returns (weak fairness of the steps inside         *)
(* claim_next_task and of the handler, for every worker); one worker stays *)
(* in the loop of lines 344-354 for ever (weak fairness of its polls and   *)
(* of the end of its sleeps); the other worker may stop between two tasks. *)
(* The producers insert no more than MaxHandlerTasks rows.                 *)
(***************************************************************************)
\* The handler of the worker's task runs and returns or raises.
Handle(w) == \E faults \in [QueueTickers -> QueueFaults] : RunTask(w, faults)

\* The claim statement a worker has started returns.
StatementReturns(w) == ClaimLock(w) \/ ClaimUpdate(w)

\* The handler a worker has called returns or raises, and run_once returns
\* (the step Handle, told by what it does to the worker's position).
HandlerReturns(w) == pc[w] = "running" /\ pc' = [pc EXCEPT ![w] = "idle"]

\* The loop of lines 344-354 goes on: the next poll starts, the sleep ends.
Looping(w) == ClaimSnapshot(w) \/ Wake(w)

Fairness ==
    /\ \A w \in Workers : WF_vars(StatementReturns(w)) /\ WF_pc(HandlerReturns(w))
    /\ WF_vars(Looping(TheWorker))

NextLive ==
    \/ \E t \in QueueTickers : HasRoom /\ AddStock(t)
    \/ \E t \in QueueTickers : HasRoom /\ RefreshStock(t)
    \/ \E w \in Workers : ClaimSnapshot(w)
    \/ \E w \in Workers : ClaimLock(w)
    \/ \E w \in Workers : ClaimUpdate(w)
    \/ \E w \in Workers : Handle(w)
    \/ \E w \in Workers : Wake(w)

SpecLive == Init /\ [][NextLive]_vars /\ Fairness

\* The i-th row has been inserted.
Enqueued(i) == i \in Ids

\* Lines 346-348 and 320, 333: a worker goes to sleep only from a poll whose
\* claim statement returned no row, and is at its next poll right after a
\* task.
SleepsOnlyAfterEmptyPoll ==
    \A w \in Workers :
        /\ (pc[w] # "sleeping" /\ pc'[w] = "sleeping") =>
               pc[w] = "snap" /\ Lockable(w) = {}
        /\ (pc[w] = "running" /\ pc'[w] # "running") => pc'[w] = "idle"

\* C30: with the producers inserting finitely many tasks, one worker staying
\* in run_loop and every handler and statement returning, every enqueued task
\* is eventually claimed and eventually DONE or ERROR; and run_loop sleeps
\* only after a poll that claimed nothing and polls again right after a task.
C30_EveryTaskFinishes ==
    /\ \A i \in 1..MaxHandlerTasks :
          Enqueued(i) ~> (Enqueued(i) /\ tasks[i].attempts >= 1 /\ Finished(i))
    /\ [][SleepsOnlyAfterEmptyPoll]_vars

\* Every row the producers could insert is finished after one attempt, and
\* the worker that stays in the loop sleeps after a poll that found nothing.
C30_Witness ==
    /\ Len(tasks) = MaxHandlerTasks
    /\ \A i \in Ids : Finished(i) /\ tasks[i].attempts = 1
    /\ pc[TheWorker] = "sleeping"

====
